---- MODULE Spec2Model ----
(***************************************************************************)
(* Model of the node-tree rendering engine of django-templates-cythonized: *)
(* the escaping / localization pipeline, the loop node and its fast paths, *)
(* the conditional node with its expression parser and evaluator, the     *)
(* cycle node with its per-render state, ForNode.render step by step with  *)
(* its scope stack and forloop frames, render calls side by side on one    *)
(* compiled tree, and the render methods of the backend.                   *)
(*                                                                         *)
(* Text is a sequence of one-character strings.  A Python value is a       *)
(* record [t, s, n, rt]: t is the value kind, s its text (str, safe str,   *)
(* the __str__ of an object, the text a callable returns), n its number    *)
(* (int, bool as 0/1, the int a callable returns) and rt the kind of the   *)
(* value a callable returns.  float, Decimal and date values are outside   *)
(* the value domain of this model.                                         *)
(***************************************************************************)
EXTENDS Integers, Sequences, FiniteSets, TLC

VARIABLES
    call,       \* the call of a render / eval / parse operation under way: its
                \* operation, its arguments and, once it has returned, its outcome
    context,    \* the Context of the render call: scope stack and render_context
    cycleLog,   \* history: per cycle node, its renders and resets in order
    renders,    \* the render calls running side by side: for each its position
                \* in the node tree, its locals and the Context it works on
    nodes,      \* the fields of the compiled node tree that were written after
                \* compilation, per node
    renderer,   \* the form renderer's cached Context (_ctx) and the Context
                \* objects the render calls of the threads created
    _number_format_cache
                \* the module-level dict of formats.py: per language key the
                \* (decimal_sep, grouping, thousand_sep) stored for it

vars == <<call, context, cycleLog, renders, nodes, renderer, _number_format_cache>>

\* none of the render calls that run side by side exists
NoRenders ==
    renders = <<>> /\ nodes = <<>> /\ renderer = <<>> /\ _number_format_cache = <<>>

-----------------------------------------------------------------------------
(* Bounds *)

MaxItems == 2       \* elements of a loop source
MaxClauses == 3     \* clauses of an IfNode
MaxTokens == 5      \* words of an {% if %} condition
MaxOps == 2         \* operators of a condition handed to Operator.eval
MaxEvents == 4      \* renders and resets of cycle nodes in one render call
MaxDepth == 1       \* loops open around a cycle node
MaxText == 3        \* characters of a text handed to conditional_escape
MaxLoop == 2        \* elements of a loop source of the step-by-step render
MaxChain == 3       \* escaping functions applied to one value in a row
MaxNest == 2        \* block tags nested in one another
MaxTags == 3        \* tags of a template handed to the compiler
MaxCalls == 3       \* number_format calls in a row

-----------------------------------------------------------------------------
(* Python values *)

Str(s)      == [t |-> "str",  s |-> s, n |-> 0, rt |-> "none"]
SafeStr(s)  == [t |-> "safe", s |-> s, n |-> 0, rt |-> "none"]
IntV(n)     == [t |-> "int",  s |-> <<>>, n |-> n, rt |-> "none"]
BoolV(b)    == [t |-> "bool", s |-> <<>>, n |-> IF b THEN 1 ELSE 0, rt |-> "none"]
NoneV       == [t |-> "none", s |-> <<>>, n |-> 0, rt |-> "none"]
ObjV(s)     == [t |-> "obj",  s |-> s, n |-> 0, rt |-> "none"]
CallStr(s)  == [t |-> "callable", s |-> s, n |-> 0, rt |-> "str"]
CallInt(n)  == [t |-> "callable", s |-> <<>>, n |-> n, rt |-> "int"]

\* the value a zero-argument call of the callable v returns
CallResult(v) == [t |-> v.rt, s |-> v.s, n |-> v.n, rt |-> "none"]

\* Python truthiness of a value
Truthy(v) ==
    CASE v.t \in {"str", "safe"} -> v.s # <<>>
      [] v.t \in {"int", "bool"} -> v.n # 0
      [] v.t = "none" -> FALSE
      [] OTHER -> TRUE

Digit(d) ==
    CASE d = 0 -> "0" [] d = 1 -> "1" [] d = 2 -> "2" [] d = 3 -> "3"
      [] d = 4 -> "4" [] d = 5 -> "5" [] d = 6 -> "6" [] d = 7 -> "7"
      [] d = 8 -> "8" [] OTHER -> "9"

RECURSIVE NatToStr(_)
NatToStr(n) == IF n < 10 THEN <<Digit(n)>> ELSE NatToStr(n \div 10) \o <<Digit(n % 10)>>

\* str(n) of a Python int
IntToStr(n) == IF n < 0 THEN <<"-">> \o NatToStr(0 - n) ELSE NatToStr(n)

\* str(v) of a Python value
PyStr(v) ==
    CASE v.t \in {"str", "safe", "obj"} -> v.s
      [] v.t = "int" -> IntToStr(v.n)
      [] v.t = "bool" -> IF v.n = 1 THEN <<"T", "r", "u", "e">> ELSE <<"F", "a", "l", "s", "e">>
      [] v.t = "none" -> <<"N", "o", "n", "e">>
      [] OTHER -> <<"<", "f", "n", ">">>

RECURSIVE Reverse(_)
Reverse(s) == IF s = <<>> THEN <<>> ELSE Reverse(Tail(s)) \o <<Head(s)>>

-----------------------------------------------------------------------------
(* html.py *)

RECURSIVE Replace(_, _, _)
\* str.replace(c, r) for a one-character c
Replace(s, c, r) ==
    IF s = <<>> THEN <<>>
    ELSE (IF Head(s) = c THEN r ELSE <<Head(s)>>) \o Replace(Tail(s), c, r)

\* html.escape(s) of the standard library: five replacements, & first
html_escape(s) ==
    LET s1 == Replace(s, "&", <<"&", "a", "m", "p", ";">>)
        s2 == Replace(s1, "<", <<"&", "l", "t", ";">>)
        s3 == Replace(s2, ">", <<"&", "g", "t", ";">>)
        s4 == Replace(s3, "\"", <<"&", "q", "u", "o", "t", ";">>)
    IN  Replace(s4, "'", <<"&", "#", "x", "2", "7", ";">>)

SpecialChars == {"<", ">", "&", "\"", "'"}

\* a scan that looks for the markup characters only and misses the quotes
_fast_escape_str_markup(s) ==
    IF \E i \in 1..Len(s) : s[i] \in {"<", ">", "&"} THEN html_escape(s) ELSE s

\* _fast_escape_str: html.escape only when a special character is found
_fast_escape_str(s) ==
    IF \E i \in 1..Len(s) : s[i] \in SpecialChars THEN html_escape(s) ELSE s

\* escape(text): always escapes, result tagged safe
escape(v) == SafeStr(html_escape(PyStr(v)))

\* a conditional_escape that does not look at the safe tag
conditional_escape_untagged(v) == Str(_fast_escape_str(PyStr(v)))

\* conditional_escape(text); no value of the model has an __html__ hook
\* other than the safe strings
conditional_escape(v) ==
    IF v.t = "safe" THEN v ELSE Str(_fast_escape_str(PyStr(v)))

\* safestring.mark_safe(s): a value with __html__ is returned as it is
mark_safe(v) == IF v.t = "safe" THEN v ELSE SafeStr(PyStr(v))

-----------------------------------------------------------------------------
(* formats.py.  env is the formatting environment of the process:          *)
(* env.uts is settings.USE_THOUSAND_SEPARATOR, env.grouping and env.tsep   *)
(* the NUMBER_GROUPING and THOUSAND_SEPARATOR of the active language.      *)
(* use_l10n is "None", "True" or "False".                                  *)

_get_use_thousand_sep(env) == env.uts

\* (decimal_sep, grouping, thousand_sep) of the language
_get_number_formats(env) == <<env.dsep, env.grouping, env.tsep>>

RECURSIVE GroupDigits(_, _, _, _, _, _)
\* the grouping loop of _format_number over the reversed integer part
GroupDigits(rev, active_interval, intervals, cnt, int_part_gd, tsep) ==
    IF rev = <<>> THEN int_part_gd
    ELSE LET hit == cnt # 0 /\ cnt = active_interval
             pop == hit /\ intervals # <<>>
             active2 == IF pop /\ Head(intervals) # 0 THEN Head(intervals)
                        ELSE active_interval
             intervals2 == IF pop THEN Tail(intervals) ELSE intervals
             gd2 == IF hit THEN int_part_gd \o Reverse(tsep) ELSE int_part_gd
             cnt2 == IF hit THEN 0 ELSE cnt
         IN  GroupDigits(Tail(rev), active2, intervals2, cnt2 + 1,
                         gd2 \o <<Head(rev)>>, tsep)

\* _format_number for an int and decimal_pos = None
_format_number(number, decimal_sep, grouping, thousand_sep, use_grouping) ==
    IF ~use_grouping THEN IntToStr(number)
    ELSE LET str_number == IntToStr(number)
             sign == IF Head(str_number) = "-" THEN <<"-">> ELSE <<>>
             int_part == IF Head(str_number) = "-" THEN Tail(str_number) ELSE str_number
             \* grouping is an int: list(grouping) raises TypeError
             intervals == <<grouping, 0>>
             gd == GroupDigits(Reverse(int_part), Head(intervals), Tail(intervals),
                               0, <<>>, thousand_sep)
         IN  sign \o Reverse(gd)

\* number_format(value, use_l10n=use_l10n) for an int
number_format(n, use_l10n, env) ==
    LET l10n == use_l10n # "False"      \* None counts as True
    IN  IF ~l10n \/ ~_get_use_thousand_sep(env) THEN IntToStr(n)
        ELSE LET formats == _get_number_formats(env)
                 use_grouping == (l10n /\ _get_use_thousand_sep(env)) /\ formats[2] # 0
             IN  _format_number(n, formats[1], formats[2], formats[3], use_grouping)

\* localize(value, use_l10n): a str for the numeric kinds, the value itself otherwise
localize(v, use_l10n, env) ==
    CASE v.t \in {"str", "safe"} -> v
      [] v.t = "bool" -> Str(PyStr(v))
      [] v.t = "int" ->
            IF use_l10n = "False" THEN Str(IntToStr(v.n))
            ELSE IF ~env.uts THEN Str(IntToStr(v.n))
            ELSE Str(number_format(v.n, use_l10n, env))
      [] OTHER -> v

-----------------------------------------------------------------------------
(* base.py (not part of the sources at hand): emission of a resolved value *)
(* and resolution of one lookup segment, as the specification states them. *)
(* ctx is the Context: ctx.autoescape and ctx.use_l10n.                    *)

\* render_value_in_context: localize, then escape by the autoescape rule
render_value_in_context(v, ctx, env) ==
    LET value == localize(v, ctx.use_l10n, env)
    IN  IF ctx.autoescape THEN conditional_escape(value).s ELSE PyStr(value)

\* _fast_escape: the escaping of a str that is not tagged safe
_fast_escape(s) == _fast_escape_str(s)

(* A loop element is [t, m]: t is "dict", "list", "object" or "scalar"    *)
(* and m maps the keys (dict), the indices "0", "1" (list) or the          *)
(* attribute names (object) the element has to their values.               *)

Ok(v) == [k |-> "ok", v |-> v]
Raise(e) == [k |-> e, v |-> NoneV]

IsIndex(seg) == seg \in {"0", "1"}

\* item[seg] with the segment as a str key
PySubscript(item, seg) ==
    CASE item.t = "dict" -> IF seg \in DOMAIN item.m THEN Ok(item.m[seg]) ELSE Raise("KeyError")
      [] OTHER -> Raise("TypeError")

\* item[int(seg)]
PyIndex(item, seg) ==
    CASE item.t = "list" -> IF seg \in DOMAIN item.m THEN Ok(item.m[seg]) ELSE Raise("IndexError")
      [] item.t = "dict" -> Raise("KeyError")
      [] OTHER -> Raise("TypeError")

\* getattr(item, seg)
PyGetattr(item, seg) ==
    IF item.t = "object" /\ seg \in DOMAIN item.m THEN Ok(item.m[seg])
    ELSE Raise("AttributeError")

\* Variable resolution of one segment on the general path: mapping key,
\* sequence index, attribute, then a zero-argument call of a callable
Variable_resolve_lookup(item, seg) ==
    LET byKey == PySubscript(item, seg)
        byIdx == IF IsIndex(seg) THEN PyIndex(item, seg) ELSE Raise("ValueError")
        byAttr == PyGetattr(item, seg)
        found == IF byKey.k = "ok" THEN byKey
                 ELSE IF byIdx.k = "ok" THEN byIdx
                 ELSE IF byAttr.k = "ok" THEN byAttr
                 ELSE Raise("VariableDoesNotExist")
    IN  IF found.k = "ok" /\ found.v.t = "callable" THEN Ok(CallResult(found.v))
        ELSE found

RECURSIVE Upper(_)
Upper(s) ==
    IF s = <<>> THEN <<>>
    ELSE <<IF Head(s) = "a" THEN "A" ELSE Head(s)>> \o Upper(Tail(s))

\* the filter of the model, invoked as (value) -> value: str.upper of the text
ApplyFilter(filter, v) == IF filter = "upper" THEN Str(Upper(PyStr(v))) ELSE v

\* _render_var_with_value: the filter chain applied to an already resolved value
_render_var_with_value(filter, v, ctx, env) ==
    render_value_in_context(ApplyFilter(filter, v), ctx, env)

\* VariableNode.render of {{ loopvar.attr }} / {{ loopvar.attr|filter }} with
\* loopvar bound to item: a miss yields string_if_invalid = "", then the filters
VariableNode_render(item, attr, filter, ctx, env) ==
    LET r == Variable_resolve_lookup(item, attr)
        obj == IF r.k = "ok" THEN r.v ELSE Str(<<>>)
    IN  render_value_in_context(ApplyFilter(filter, obj), ctx, env)

-----------------------------------------------------------------------------
(* smartif.py: the evaluator *)

OP_OR == 0
OP_AND == 1
OP_NOT == 2
OP_IN == 3
OP_NOT_IN == 4
OP_IS == 5
OP_IS_NOT == 6
OP_EQ == 7
OP_NE == 8
OP_GT == 9
OP_GE == 10
OP_LT == 11
OP_LE == 12

(* Python's operators on the values of the model.  Each yields Ok(bool) or *)
(* Raise("TypeError").                                                     *)

IsNum(v) == v.t \in {"int", "bool"}
IsText(v) == v.t \in {"str", "safe"}

Ord(c) ==
    CASE c = "\"" -> 34 [] c = "&" -> 38 [] c = "'" -> 39 [] c = "<" -> 60
      [] c = ">" -> 62 [] c = "A" -> 65 [] c = "a" -> 97 [] c = "b" -> 98
      [] OTHER -> 120

RECURSIVE SeqLess(_, _)
\* lexicographic s < u
SeqLess(s, u) ==
    IF u = <<>> THEN FALSE
    ELSE IF s = <<>> THEN TRUE
    ELSE IF Ord(Head(s)) # Ord(Head(u)) THEN Ord(Head(s)) < Ord(Head(u))
    ELSE SeqLess(Tail(s), Tail(u))

PyEq(a, b) ==
    CASE IsNum(a) /\ IsNum(b) -> a.n = b.n
      [] IsText(a) /\ IsText(b) -> a.s = b.s
      [] a.t = "none" /\ b.t = "none" -> TRUE
      [] OTHER -> FALSE        \* distinct objects of other kinds

PyLess(a, b) ==
    CASE IsNum(a) /\ IsNum(b) -> Ok(BoolV(a.n < b.n))
      [] IsText(a) /\ IsText(b) -> Ok(BoolV(SeqLess(a.s, b.s)))
      [] OTHER -> Raise("TypeError")

PyLessEq(a, b) ==
    CASE IsNum(a) /\ IsNum(b) -> Ok(BoolV(a.n <= b.n))
      [] IsText(a) /\ IsText(b) -> Ok(BoolV(a.s = b.s \/ SeqLess(a.s, b.s)))
      [] OTHER -> Raise("TypeError")

\* a in b: substring test on two strs, TypeError on a non-container
PyIn(a, b) ==
    IF IsText(a) /\ IsText(b)
    THEN Ok(BoolV(\E i \in 1..(Len(b.s) + 1) :
                     /\ i + Len(a.s) - 1 <= Len(b.s)
                     /\ SubSeq(b.s, i, i + Len(a.s) - 1) = a.s))
    ELSE Raise("TypeError")

\* a is b: the singletons None, True, False; operands of other kinds are
\* taken to be distinct objects
PyIs(a, b) == a.t = b.t /\ a.t \in {"none", "bool"} /\ a.n = b.n

PyNot(r) == IF r.k = "ok" THEN Ok(BoolV(~Truthy(r.v))) ELSE r

\* the comparison an op code between OP_IN and OP_LE denotes
Compare(op, a, b) ==
    CASE op = OP_IN -> PyIn(a, b)
      [] op = OP_NOT_IN -> PyNot(PyIn(a, b))
      [] op = OP_IS -> Ok(BoolV(PyIs(a, b)))
      [] op = OP_IS_NOT -> Ok(BoolV(~PyIs(a, b)))
      [] op = OP_EQ -> Ok(BoolV(PyEq(a, b)))
      [] op = OP_NE -> Ok(BoolV(~PyEq(a, b)))
      [] op = OP_GT -> PyLess(b, a)
      [] op = OP_GE -> PyLessEq(b, a)
      [] op = OP_LT -> PyLess(a, b)
      [] OTHER -> PyLessEq(a, b)

(* A token of a parsed condition is [op_code, first, second, value]: an    *)
(* operator has an op code >= 0 and operand tokens, a literal the op code  *)
(* -1 and value [name, kind, v, attr].  A literal of kind "lit" evaluates  *)
(* to v, of kind "var" to the attribute attr of the loop element, of kind  *)
(* "dne" it raises VariableDoesNotExist and of kind "err" another error.   *)
(* eval returns [k, v, log]: the outcome, the value and the names of the   *)
(* literals whose eval ran, in order.                                      *)

NoToken == <<>>
Lit(name, v) == [op_code |-> -1, first |-> NoToken, second |-> NoToken,
                 value |-> [name |-> name, kind |-> "lit", v |-> v, attr |-> ""]]
VarLit(name, attr) == [op_code |-> -1, first |-> NoToken, second |-> NoToken,
                 value |-> [name |-> name, kind |-> "var", v |-> NoneV, attr |-> attr]]
BadLit(name, kind) == [op_code |-> -1, first |-> NoToken, second |-> NoToken,
                 value |-> [name |-> name, kind |-> kind, v |-> NoneV, attr |-> ""]]
Op(op_code, first, second) ==
    [op_code |-> op_code, first |-> first, second |-> second, value |-> <<>>]

EvOk(v, log) == [k |-> "ok", v |-> v, log |-> log]
EvRaise(e, log) == [k |-> e, v |-> NoneV, log |-> log]

\* TemplateLiteral.eval / Literal.eval; a lookup miss resolves to None
\* (ignore_failures=True)
Literal_eval(tok, item) ==
    LET l == tok.value
    IN  CASE l.kind = "lit" -> EvOk(l.v, <<l.name>>)
          [] l.kind = "var" ->
                LET r == Variable_resolve_lookup(item, l.attr)
                IN  EvOk(IF r.k = "ok" THEN r.v ELSE NoneV, <<l.name>>)
          [] l.kind = "dne" -> EvRaise("VariableDoesNotExist", <<l.name>>)
          [] OTHER -> EvRaise("Exception", <<l.name>>)

\* an Operator.eval without the except clause: the exception propagates
Caught_propagates(e, log) == EvRaise(e, log)

\* except Exception: return False
Caught(e, log) == EvOk(BoolV(FALSE), log)

\* OP_OR: left if left else second.eval(context); L and R are the outcomes
\* of the operands' eval, R being used only where the code evaluates it
Or_eval(L, R) ==
    IF L.k # "ok" THEN Caught(L.k, L.log)
    ELSE IF Truthy(L.v) THEN L
    ELSE IF R.k # "ok" THEN Caught(R.k, L.log \o R.log)
    ELSE EvOk(R.v, L.log \o R.log)

\* an `and` that evaluates both operands before it tests the left one
And_eval_eager(L, R) ==
    IF L.k # "ok" THEN Caught(L.k, L.log)
    ELSE IF R.k # "ok" THEN Caught(R.k, L.log \o R.log)
    ELSE EvOk(IF Truthy(L.v) THEN R.v ELSE L.v, L.log \o R.log)

\* OP_AND: second.eval(context) if left else left
And_eval(L, R) ==
    IF L.k # "ok" THEN Caught(L.k, L.log)
    ELSE IF ~Truthy(L.v) THEN L
    ELSE IF R.k # "ok" THEN Caught(R.k, L.log \o R.log)
    ELSE EvOk(R.v, L.log \o R.log)

RECURSIVE eval(_, _)

\* the body of Operator.eval for op code op; L and R are the outcomes of the
\* operands' eval, R being used only where the code evaluates it.  Every
\* exception raised below the operator is caught and yields False
Operator_apply(op, L, R) ==
    LET both == L.log \o R.log
    IN  CASE op = OP_OR -> Or_eval(L, R)
          [] op = OP_AND -> And_eval(L, R)
          [] op = OP_NOT ->
                IF L.k # "ok" THEN Caught(L.k, L.log)
                ELSE EvOk(BoolV(~Truthy(L.v)), L.log)
          [] OTHER ->
                IF L.k # "ok" THEN Caught(L.k, L.log)
                ELSE IF R.k # "ok" THEN Caught(R.k, both)
                ELSE LET c == Compare(op, L.v, R.v)
                     IN  IF c.k # "ok" THEN Caught(c.k, both) ELSE EvOk(c.v, both)

Operator_eval(tok, item) ==
    Operator_apply(tok.op_code, eval(tok.first, item), eval(tok.second, item))

eval(tok, item) ==
    IF tok.op_code = -1 THEN Literal_eval(tok, item) ELSE Operator_eval(tok, item)

-----
(* defaulttags.py: IfNode.  A clause is [cond, body]: cond is a token, or  *)
(* ElseCond for the else clause; body is the text its nodelist renders.    *)
(* render returns [k, out, evald]: the outcome, the text and the indices   *)
(* of the clauses whose condition was evaluated, in order.                 *)

ElseCond == [op_code |-> -2, first |-> NoToken, second |-> NoToken, value |-> <<>>]

IfRes(k, out, evald) == [k |-> k, out |-> out, evald |-> evald]

RECURSIVE IfNode_general(_, _, _, _)
\* the loop over conditions_nodelists
IfNode_general(conds, i, item, evald) ==
    IF i > Len(conds) THEN IfRes("ok", <<>>, evald)
    ELSE IF conds[i].cond.op_code # -2
         THEN LET r == eval(conds[i].cond, item)
                  ev == evald \o <<i>>
              IN  IF r.k \notin {"ok", "VariableDoesNotExist"} THEN IfRes(r.k, <<>>, ev)
                  ELSE IF r.k = "ok" /\ Truthy(r.v) THEN IfRes("ok", conds[i].body, ev)
                  ELSE IfNode_general(conds, i + 1, item, ev)
         ELSE IfRes("ok", conds[i].body, evald)

\* a single-pair path that lets the missing-variable signal escape
IfNode_single_uncaught(conds, item) ==
    LET r == eval(conds[1].cond, item)
    IN  IF r.k # "ok" THEN IfRes(r.k, <<>>, <<1>>)
        ELSE IF Truthy(r.v) THEN IfRes("ok", conds[1].body, <<1>>)
        ELSE IfRes("ok", <<>>, <<1>>)

\* the fast path for a single {% if %} without elif / else
IfNode_single(conds, item) ==
    LET r == eval(conds[1].cond, item)
    IN  IF r.k \notin {"ok", "VariableDoesNotExist"} THEN IfRes(r.k, <<>>, <<1>>)
        ELSE IF r.k = "ok" /\ Truthy(r.v) THEN IfRes("ok", conds[1].body, <<1>>)
        ELSE IfRes("ok", <<>>, <<1>>)

IfNode_render(conds, item) ==
    IF Len(conds) = 1 THEN IfNode_single(conds, item)
    ELSE IfNode_general(conds, 1, item, <<>>)

-----------------------------------------------------------------------------
(* defaulttags.py: ForNode.  A body node is [k, s, attr, filter, conds]:   *)
(*   k = "text"      TextNode with text s                                  *)
(*   k = "var"       VariableNode {{ loopvar }}                            *)
(*   k = "loopattr"  VariableNode {{ loopvar.attr }} or, with a filter     *)
(*                   other than "none", {{ loopvar.attr|filter }}          *)
(*   k = "if"        IfNode with the clauses conds                         *)
(* A piece of output is Out(text) or Exc(e), an exception leaving render.  *)

TextNode(s) == [k |-> "text", s |-> s, attr |-> "", filter |-> "none", conds |-> <<>>]
VarNode == [k |-> "var", s |-> <<>>, attr |-> "", filter |-> "none", conds |-> <<>>]
LoopAttrNode(attr, filter) ==
    [k |-> "loopattr", s |-> <<>>, attr |-> attr, filter |-> filter, conds |-> <<>>]
IfNodeOf(conds) == [k |-> "if", s |-> <<>>, attr |-> "", filter |-> "none", conds |-> conds]

Out(text) == [k |-> "ok", out |-> text]
Exc(e) == [k |-> e, out |-> <<>>]

\* Node.render on the general path, the loop variable bound to item in scope
Node_render(nd, item, ctx, env) ==
    CASE nd.k = "text" -> Out(nd.s)
      [] nd.k = "var" -> Out(render_value_in_context(item.v, ctx, env))
      [] nd.k = "loopattr" -> Out(VariableNode_render(item, nd.attr, nd.filter, ctx, env))
      [] OTHER -> LET r == IfNode_render(nd.conds, item)
                  IN  IF r.k = "ok" THEN Out(r.out) ELSE Exc(r.k)

\* pre-scan (lines 381-393): FALSE when every node is a TextNode or {{ loopvar }}
needs_ctx_write(body, unpack, debug) ==
    IF ~unpack /\ ~debug
    THEN \E j \in 1..Len(body) : body[j].k \notin {"text", "var"}
    ELSE TRUE

NoAttr == ""

\* classification of one IfNode clause (lines 441-520): the tuple
\* (attr, op, rhs, text) or, when the clause does not qualify, op = -3
IfInfoEntry(cl) ==
    LET c == cl.cond
        notOk == [attr |-> NoAttr, op |-> -3, rhs |-> NoneV, text |-> <<>>]
    IN  CASE c.op_code = -2 ->
                [attr |-> NoAttr, op |-> -1, rhs |-> NoneV, text |-> cl.body]
          [] c.op_code = -1 ->
                IF c.value.kind = "var"
                THEN [attr |-> c.value.attr, op |-> -1, rhs |-> NoneV, text |-> cl.body]
                ELSE notOk
          [] c.op_code >= OP_EQ /\ c.op_code <= OP_LE ->
                IF /\ c.first.op_code = -1 /\ c.first.value.kind = "var"
                   /\ c.second.op_code = -1 /\ c.second.value.kind = "lit"
                THEN [attr |-> c.first.value.attr, op |-> c.op_code,
                      rhs |-> c.second.value.v, text |-> cl.body]
                ELSE notOk
          [] OTHER -> notOk

_if_info(conds) == [i \in 1..Len(conds) |-> IfInfoEntry(conds[i])]

_if_ok(conds) == Len(conds) > 0 /\ \A i \in 1..Len(conds) : _if_info(conds)[i].op # -3

\* lines 525-541: the attribute all conditions share, NoAttr when they differ
_same_attr(info) ==
    LET attrs == {info[i].attr : i \in 1..Len(info)} \ {NoAttr}
    IN  IF Cardinality(attrs) = 1 THEN CHOOSE a \in attrs : TRUE ELSE NoAttr

\* tag codes: 0=TEXT, 1=VAR, 2=LOOPATTR_NOFILTER, 3=LOOPATTR_FILTER, 4=OTHER, 5=LOOPIF
_ntags(nd) ==
    CASE nd.k = "text" -> 0
      [] nd.k = "var" -> 1
      [] nd.k = "loopattr" -> IF nd.filter = "none" THEN 2 ELSE 3
      [] nd.k = "if" -> IF _if_ok(nd.conds) THEN 5 ELSE 4
      [] OTHER -> 4

\* the attribute fetch of the LOOPATTR tags: Ok(value), Raise("fallback") when
\* the node is handed to the general path, or the exception that escapes
LoopAttrFetch(item, attr) ==
    LET sub == PySubscript(item, attr)
        att == PyGetattr(item, attr)
    IN  IF item.t = "dict" THEN sub       \* direct subscript, no try/except
        ELSE IF sub.k = "ok" THEN sub
        ELSE IF att.k = "ok" THEN att
        ELSE Raise("fallback")

\* tag 2, lines 579-618; general is loop_nodes[j].render(context)
LoopAttrNoFilter(nd, item, ctx, env, general) ==
    LET f == LoopAttrFetch(item, nd.attr)
        _av == f.v
    IN  IF f.k = "fallback" THEN general
        ELSE IF f.k # "ok" THEN Exc(f.k)
        ELSE CASE _av.t = "str" ->
                    Out(IF ctx.autoescape THEN _fast_escape(_av.s) ELSE _av.s)
               [] _av.t = "safe" -> Out(_av.s)
               [] _av.t = "int" -> Out(IntToStr(_av.n))
               [] _av.t = "callable" -> general
               [] OTHER -> Out(render_value_in_context(_av, ctx, env))

\* tag 3, lines 619-642
LoopAttrFilter(nd, item, ctx, env, general) ==
    LET f == LoopAttrFetch(item, nd.attr)
    IN  IF f.k = "fallback" THEN general
        ELSE IF f.k # "ok" THEN Exc(f.k)
        ELSE IF f.v.t = "callable" THEN general
        ELSE Out(_render_var_with_value(nd.filter, f.v, ctx, env))

\* the attribute fetch of the LOOPIF tag: a miss on both lookups gives None
LoopIfFetch(item, attr) ==
    LET sub == PySubscript(item, attr)
        att == PyGetattr(item, attr)
    IN  IF item.t = "dict" THEN sub
        ELSE IF sub.k = "ok" THEN sub
        ELSE IF att.k = "ok" THEN att
        ELSE Ok(NoneV)

RECURSIVE LoopIfEntries(_, _, _, _)
\* the loop over _if_info; same is the value fetched once when all conditions
\* share their attribute, Raise("each") when each entry fetches its own
LoopIfEntries(info, i, item, same) ==
    IF i > Len(info) THEN Out(<<>>)                  \* not _if_matched
    ELSE LET e == info[i]
             f == IF same.k = "each" THEN LoopIfFetch(item, e.attr) ELSE same
             c == Compare(e.op, f.v, e.rhs)
         IN  IF e.attr = NoAttr THEN Out(e.text)     \* else clause
             ELSE IF f.k # "ok" THEN Exc(f.k)
             ELSE IF e.op = -1
                  THEN IF Truthy(f.v) THEN Out(e.text)
                       ELSE LoopIfEntries(info, i + 1, item, same)
             ELSE IF c.k # "ok" THEN Exc(c.k)        \* the comparison raised
             ELSE IF Truthy(c.v) THEN Out(e.text)
             ELSE LoopIfEntries(info, i + 1, item, same)

\* tag 5, lines 643-760
LoopIf(nd, item) ==
    LET info == _if_info(nd.conds)
        sa == _same_attr(info)
        same == IF sa # NoAttr THEN LoopIfFetch(item, sa) ELSE Raise("each")
    IN  IF sa # NoAttr /\ same.k # "ok" THEN Exc(same.k)
        ELSE LoopIfEntries(info, 1, item, same)

\* one body node for one element in the optimized loop (lines 575-772);
\* general is loop_nodes[j].render(context)
OptimizedNode(nd, item, ctx, env, general) ==
    LET tag == _ntags(nd)
    IN  CASE tag = 0 -> Out(nd.s)
          [] tag = 2 -> LoopAttrNoFilter(nd, item, ctx, env, general)
          [] tag = 3 -> LoopAttrFilter(nd, item, ctx, env, general)
          [] tag = 5 -> LoopIf(nd, item)
          [] OTHER -> general

\* one body node for one element in the ultra-fast loop (lines 553-565)
UltraFastNode(nd, item, ctx, env) ==
    IF nd.k = "text" THEN Out(nd.s)
    ELSE Out(_render_var_with_value("none", item.v, ctx, env))

\* one body node for one element in the loop the path selects (the ultra-fast
\* loop, the optimized loop, or the general loop of lines 773-822)
LoopNode(path, nd, item, ctx, env, general) ==
    CASE path = "ultra" -> UltraFastNode(nd, item, ctx, env)
      [] path = "optimized" -> OptimizedNode(nd, item, ctx, env, general)
      [] OTHER -> general

RECURSIVE ForLoop(_, _, _, _, _, _, _, _)
\* the iteration over the elements and the body nodes; path selects the loop
ForLoop(values, body, i, j, acc, path, ctx, env) ==
    IF i > Len(values) THEN Out(acc)
    ELSE IF j > Len(body) THEN ForLoop(values, body, i + 1, 1, acc, path, ctx, env)
    ELSE LET piece == LoopNode(path, body[j], values[i], ctx, env,
                                 Node_render(body[j], values[i], ctx, env))
         IN  IF piece.k # "ok" THEN piece
             ELSE ForLoop(values, body, i, j + 1, acc \o piece.out, path, ctx, env)

\* ForNode.render with one loop variable.  f is the node and its context:
\* f.values the resolved source, f.body the loop body, f.empty the text of the
\* empty body, f.is_reversed, f.debug (engine.debug), f.ctx and f.env
ForNode_render(f) ==
    LET values == IF f.is_reversed THEN Reverse(f.values) ELSE f.values
        unpack == FALSE
        path == IF ~needs_ctx_write(f.body, unpack, f.debug) THEN "ultra"
                ELSE IF ~unpack /\ ~f.debug THEN "optimized"
                ELSE "general"
    IN  IF Len(f.values) < 1 THEN Out(f.empty)
        ELSE ForLoop(values, f.body, 1, 1, <<>>, path, f.ctx, f.env)

-----------------------------------------------------------------------------
(* smartif.py: the parser.  A condition is a sequence of words; a word     *)
(* that is no operator is a variable name.                                 *)

OperatorIds == {"or", "and", "not", "in", "not in", "is", "is not",
                "==", "!=", ">", ">=", "<", "<="}

\* OPERATORS: id -> (op code, left binding power, prefix)
OPERATORS(id) ==
    CASE id = "or" -> [op_code |-> OP_OR, lbp |-> 6, is_prefix |-> FALSE]
      [] id = "and" -> [op_code |-> OP_AND, lbp |-> 7, is_prefix |-> FALSE]
      [] id = "not" -> [op_code |-> OP_NOT, lbp |-> 8, is_prefix |-> TRUE]
      [] id = "in" -> [op_code |-> OP_IN, lbp |-> 9, is_prefix |-> FALSE]
      [] id = "not in" -> [op_code |-> OP_NOT_IN, lbp |-> 9, is_prefix |-> FALSE]
      [] id = "is" -> [op_code |-> OP_IS, lbp |-> 10, is_prefix |-> FALSE]
      [] id = "is not" -> [op_code |-> OP_IS_NOT, lbp |-> 10, is_prefix |-> FALSE]
      [] id = "==" -> [op_code |-> OP_EQ, lbp |-> 10, is_prefix |-> FALSE]
      [] id = "!=" -> [op_code |-> OP_NE, lbp |-> 10, is_prefix |-> FALSE]
      [] id = ">" -> [op_code |-> OP_GT, lbp |-> 10, is_prefix |-> FALSE]
      [] id = ">=" -> [op_code |-> OP_GE, lbp |-> 10, is_prefix |-> FALSE]
      [] id = "<" -> [op_code |-> OP_LT, lbp |-> 10, is_prefix |-> FALSE]
      [] OTHER -> [op_code |-> OP_LE, lbp |-> 10, is_prefix |-> FALSE]

RECURSIVE mapped_tokens(_)
\* IfParser.__init__: 'is','not' and 'not','in' become single tokens
mapped_tokens(tokens) ==
    IF tokens = <<>> THEN <<>>
    ELSE IF Len(tokens) > 1 /\ tokens[1] = "is" /\ tokens[2] = "not"
         THEN <<"is not">> \o mapped_tokens(Tail(Tail(tokens)))
    ELSE IF Len(tokens) > 1 /\ tokens[1] = "not" /\ tokens[2] = "in"
         THEN <<"not in">> \o mapped_tokens(Tail(Tail(tokens)))
    ELSE <<Head(tokens)>> \o mapped_tokens(Tail(tokens))

\* the token at position p of the mapped tokens; "" stands for _end_token
TokenAt(toks, p) == IF p > Len(toks) THEN "" ELSE toks[p]

lbp(id) == IF id \in OperatorIds THEN OPERATORS(id).lbp ELSE 0

\* create_var: the literal for a variable name, resolved when it is evaluated
create_var(name) == VarLit(name, name)

(* The parser state is the position p of current_token.  expression, nud   *)
(* and led return [k, left, p]: k = "ok" with the tree and the position of *)
(* the token then current, or k = "error_class".                           *)

POk(left, p) == [k |-> "ok", left |-> left, p |-> p]
PErr(p) == [k |-> "error_class", left |-> NoToken, p |-> p]

RECURSIVE expression(_, _, _)
RECURSIVE led_loop(_, _, _, _)

\* t.nud(parser) for the token t just consumed; p is the current position
nud(toks, t, p) ==
    IF t = "" THEN PErr(p)                              \* EndToken.nud
    ELSE IF t \notin OperatorIds THEN POk(create_var(t), p)  \* Literal.nud
    ELSE IF OPERATORS(t).is_prefix
         THEN LET r == expression(toks, p, OPERATORS(t).lbp)
              IN  IF r.k # "ok" THEN r
                  ELSE POk(Op(OPERATORS(t).op_code, r.left, NoToken), r.p)
    ELSE PErr(p)

\* t.led(left, parser) for the operator token t just consumed
led(toks, t, left, p) ==
    IF ~OPERATORS(t).is_prefix
    THEN LET r == expression(toks, p, OPERATORS(t).lbp)
         IN  IF r.k # "ok" THEN r
             ELSE POk(Op(OPERATORS(t).op_code, left, r.left), r.p)
    ELSE PErr(p)

\* the while loop of IfParser.expression
led_loop(toks, left, p, rbp) ==
    IF rbp < lbp(TokenAt(toks, p))
    THEN LET r == led(toks, TokenAt(toks, p), left, p + 1)
         IN  IF r.k # "ok" THEN r ELSE led_loop(toks, r.left, r.p, rbp)
    ELSE POk(left, p)

expression(toks, p, rbp) ==
    LET r == nud(toks, TokenAt(toks, p), p + 1)
    IN  IF r.k # "ok" THEN r ELSE led_loop(toks, r.left, r.p, rbp)

\* parse() without the test for tokens left unread
IfParser_parse_lax(tokens) ==
    expression(mapped_tokens(tokens), 1, 0)

\* IfParser(tokens).parse()
IfParser_parse(tokens) ==
    LET toks == mapped_tokens(tokens)
        r == expression(toks, 1, 0)
    IN  IF r.k # "ok" THEN r
        ELSE IF TokenAt(toks, r.p) # "" THEN PErr(r.p)   \* unused tokens
        ELSE r

-----------------------------------------------------------------------------
(* context.py (not part of the sources at hand), as the specification      *)
(* states it.  The Context is [dicts, render_context, autoescape,          *)
(* use_l10n]: dicts is the scope stack, innermost last, each frame a       *)
(* mapping name -> value; render_context maps a node to its state and is   *)
(* not scoped by push / pop.                                               *)

EmptyMap == [x \in {} |-> NoneV]

\* m with key bound to value
MapSet(m, key, value) ==
    [x \in DOMAIN m \cup {key} |-> IF x = key THEN value ELSE m[x]]

\* set_upward(key, value): binds key in the outermost frame
set_upward(ctx, key, value) ==
    [ctx EXCEPT !.dicts[1] = MapSet(@, key, value)]

\* the formatting environment of a process with the default settings
DefaultEnv == [uts |-> FALSE, dsep |-> <<".">>, grouping |-> 3, tsep |-> <<",">>]

-----------------------------------------------------------------------------
(* defaulttags.py: CycleNode and ResetCycleNode.  A cycle node is          *)
(* [cyclevars, variable_name, silent]: cyclevars are the literal values of *)
(* its filter expressions, variable_name is "" when the tag binds no name. *)

CycleNodes == {"c1", "c2", "c3"}

\* the cycle nodes whose values are all literal strings, with and without
\* the characters html.escape rewrites
LiteralNodes == {"c1", "e1", "e2", "e3"}

\* c1: {% cycle 'a' 'b' 'c' %}; c2: {% cycle 1 2 %}; c3: {% cycle 'x' 'y' as cls %}
\* e1: {% cycle 'p' '<b>' "it's" %}; e2: {% cycle 'a&b' '"' %};
\* e3: {% cycle '' 'q' '&<' '>' %}
CycleNode(n) ==
    CASE n = "c1" -> [cyclevars |-> <<Str(<<"a">>), Str(<<"b">>), Str(<<"c">>)>>,
                      variable_name |-> "", silent |-> FALSE]
      [] n = "c2" -> [cyclevars |-> <<IntV(1), IntV(2)>>,
                      variable_name |-> "", silent |-> FALSE]
      [] n = "e1" -> [cyclevars |-> <<Str(<<"p">>), Str(<<"<", "b", ">">>),
                                      Str(<<"i", "t", "'", "s">>)>>,
                      variable_name |-> "", silent |-> FALSE]
      [] n = "e2" -> [cyclevars |-> <<Str(<<"a", "&", "b">>), Str(<<"\"">>)>>,
                      variable_name |-> "", silent |-> FALSE]
      [] n = "e3" -> [cyclevars |-> <<Str(<<>>), Str(<<"q">>), Str(<<"&", "<">>),
                                      Str(<<">">>)>>,
                      variable_name |-> "", silent |-> FALSE]
      [] OTHER -> [cyclevars |-> <<Str(<<"x">>), Str(<<"y">>)>>,
                   variable_name |-> "cls", silent |-> FALSE]

\* __init__: the values are pre-resolved when the node binds no name, is not
\* silent and every value is a literal str
_preresolved(nd) ==
    /\ nd.variable_name = ""
    /\ ~nd.silent
    /\ \A i \in 1..Len(nd.cyclevars) : nd.cyclevars[i].t \in {"str", "safe"}

_n(nd) == Len(nd.cyclevars)

\* a scan that stops after the first value
_needs_escape_first(nd) ==
    \E j \in 1..Len(nd.cyclevars[1].s) : nd.cyclevars[1].s[j] \in SpecialChars

\* __init__: _needs_escape, whether any pre-resolved value holds a character
\* html.escape rewrites
_needs_escape(nd) ==
    \E i \in 1..Len(nd.cyclevars) :
        \E j \in 1..Len(nd.cyclevars[i].s) : nd.cyclevars[i].s[j] \in SpecialChars

\* an index that stops at the last value instead of wrapping
NextIdx_nowrap(idx, n) == IF idx + 1 < n THEN idx + 1 ELSE idx

\* the index stored after a render of the fast path (line 157)
NextIdx(idx, n) == (idx + 1) % n

\* itertools.cycle(cyclevars): the position of the element next() returns
itertools_cycle == [kind |-> "cycle", pos |-> 0]

\* CycleNode.render, general path: next() of the stored itertools.cycle,
\* the value resolved and rendered by render_value_in_context
CycleNode_general(ctx, n, env) ==
    LET nd == CycleNode(n)
        rc == ctx.render_context
        rc1 == IF n \notin DOMAIN rc THEN MapSet(rc, n, itertools_cycle) ELSE rc
        cycle_iter == rc1[n]
        value == nd.cyclevars[cycle_iter.pos + 1]
        rc2 == MapSet(rc1, n, [cycle_iter EXCEPT !.pos = (@ + 1) % _n(nd)])
        ctx2 == [ctx EXCEPT !.render_context = rc2]
        ctx3 == IF nd.variable_name # ""
                THEN set_upward(ctx2, nd.variable_name, value) ELSE ctx2
    IN  [ctx |-> ctx3, sel |-> value,
         out |-> IF nd.silent THEN <<>>
                 ELSE render_value_in_context(value, ctx, env)]

\* CycleNode.render: [ctx, sel, out], the Context after the render, the
\* value selected and the text returned
CycleNode_render(ctx, n, env) ==
    LET nd == CycleNode(n)
        rc == ctx.render_context
    IN  IF _preresolved(nd)
        THEN LET idx == IF n \in DOMAIN rc THEN rc[n].pos ELSE 0
                 value == nd.cyclevars[idx + 1]
             IN  [ctx |-> [ctx EXCEPT !.render_context =
                              MapSet(rc, n, [kind |-> "int", pos |-> NextIdx(idx, _n(nd))])],
                  sel |-> value,
                  out |-> IF ctx.autoescape /\ _needs_escape(nd)
                          THEN escape(value).s ELSE value.s]
        ELSE CycleNode_general(ctx, n, env)

\* a reset that leaves the render_context as it is
CycleNode_reset_noop(rc, n) == rc

\* CycleNode.reset: the render_context after the reset of node n
CycleNode_reset(rc, n) ==
    IF _preresolved(CycleNode(n)) THEN MapSet(rc, n, [kind |-> "int", pos |-> 0])
    ELSE MapSet(rc, n, itertools_cycle)

\* ResetCycleNode.render: self.node.reset(context)
ResetCycleNode_render(ctx, n) ==
    [ctx EXCEPT !.render_context = CycleNode_reset(@, n)]

-----------------------------------------------------------------------------
(* State.  A render call works on a fresh Context; call is idle outside    *)
(* the specifications that start with an operation under way.              *)

InitContext ==
    [dicts |-> <<EmptyMap>>, render_context |-> EmptyMap,
     autoescape |-> TRUE, use_l10n |-> "None"]

EmptyLog == [n \in CycleNodes |-> <<>>]

Idle == [op |-> "idle", arg |-> <<>>, done |-> TRUE, res |-> <<>>]

Pending(op, arg) == [op |-> op, arg |-> arg, done |-> FALSE, res |-> <<>>]

RECURSIVE SeqsUpTo(_, _)
\* the sequences over S of length 0..n
SeqsUpTo(S, n) ==
    IF n = 0 THEN {<<>>}
    ELSE LET shorter == SeqsUpTo(S, n - 1)
         IN  shorter \cup {Append(q, x) : q \in {r \in shorter : Len(r) = n - 1}, x \in S}

-----------------------------------------------------------------------------
(* ForNode.render over bounded loop sources, bodies and settings *)

MapOf(key, value) == [x \in {key} |-> value]
Item(t, m) == [t |-> t, m |-> m, v |-> ObjV(<<"o">>)]

Items ==
    { Item("dict", MapOf("a", Str(<<"a", "<">>))),
      Item("dict", MapOf("a", IntV(1234))),
      Item("dict", EmptyMap),
      Item("object", MapOf("a", SafeStr(<<"<", "b">>))),
      Item("object", MapOf("a", BoolV(TRUE))),
      Item("object", MapOf("a", ObjV(<<"o", "&">>))),
      Item("object", MapOf("a", CallInt(5))),
      Item("object", MapOf("a", NoneV)),
      Item("object", EmptyMap),
      Item("list", MapOf("0", IntV(7))),
      [t |-> "scalar", m |-> EmptyMap, v |-> Str(<<"a", "&">>)] }

Clause(cond, body) == [cond |-> cond, body |-> body]

\* {% if x.a %}, {% if x.0 %}, {% if x.a >= 5 %}..{% else %}, {% if x.a == 5 %}..
\* {% elif x.0 %}, {% if x.a < 'a' %}, {% if not x.a %}
IfBodies ==
    { <<Clause(VarLit("a", "a"), <<"y">>)>>,
      <<Clause(VarLit("0", "0"), <<"y">>)>>,
      <<Clause(Op(OP_GE, VarLit("a", "a"), Lit("5", IntV(5))), <<"y">>),
        Clause(ElseCond, <<"n">>)>>,
      <<Clause(Op(OP_EQ, VarLit("a", "a"), Lit("5", IntV(5))), <<"y">>),
        Clause(VarLit("0", "0"), <<"z">>)>>,
      <<Clause(Op(OP_LT, VarLit("a", "a"), Lit("s", Str(<<"a">>))), <<"y">>)>>,
      <<Clause(Op(OP_NOT, VarLit("a", "a"), NoToken), <<"y">>)>> }

ProbeNodes ==
    {VarNode, LoopAttrNode("a", "none"), LoopAttrNode("0", "none"),
     LoopAttrNode("a", "upper")} \cup {IfNodeOf(c) : c \in IfBodies}

\* a probe node alone, or followed by a TextNode
Bodies == {<<nd>> : nd \in ProbeNodes} \cup {<<nd, TextNode(<<"|">>)>> : nd \in ProbeNodes}

Contexts == [autoescape : BOOLEAN, use_l10n : {"None", "True", "False"}]

Envs == [uts : BOOLEAN, dsep : {<<".">>}, grouping : {3}, tsep : {<<",">>}]

ForArgs ==
    [values : SeqsUpTo(Items, MaxItems), body : Bodies, empty : {<<"e">>},
     is_reversed : {FALSE}, debug : BOOLEAN, ctx : Contexts, env : Envs]

InitFor ==
    /\ call \in {Pending("ForNode.render", f) : f \in ForArgs}
    /\ context = InitContext
    /\ cycleLog = EmptyLog
    /\ NoRenders

ForNodeRender ==
    /\ call.op = "ForNode.render" /\ ~call.done
    /\ call' = [call EXCEPT !.done = TRUE, !.res = ForNode_render(call.arg)]
    /\ UNCHANGED <<context, cycleLog, renders, nodes, renderer, _number_format_cache>>

NextFor == ForNodeRender

SpecFor == InitFor /\ [][NextFor]_vars

(* Properties of ForNode.render.  The general path of a call is the same  *)
(* call with engine.debug set, which sends every node through Node.render. *)

ForDone == call.op = "ForNode.render" /\ call.done /\ ~call.arg.debug

GeneralPath(f) == ForNode_render([f EXCEPT !.debug = TRUE])

\* the first body node and the segments it looks up on the loop variable
Probe == call.arg.body[1]

ProbeSegs ==
    CASE Probe.k = "loopattr" -> {Probe.attr}
      [] Probe.k = "if" /\ _ntags(Probe) = 5 ->
            {_if_info(Probe.conds)[i].attr : i \in 1..Len(Probe.conds)} \ {NoAttr}
      [] OTHER -> {}

Elements == {call.arg.values[i] : i \in 1..Len(call.arg.values)}

\* the value the optimized loop uses for item.seg in the probe node; a node
\* handed to Node.render uses the value of the general chain
FastValue(item, seg) ==
    IF Probe.k = "loopattr"
    THEN LET f == LoopAttrFetch(item, seg)
         IN  IF f.k = "fallback" \/ (f.k = "ok" /\ f.v.t = "callable")
             THEN Variable_resolve_lookup(item, seg) ELSE f
    ELSE LoopIfFetch(item, seg)

\* C1: a LOOPATTR_NOFILTER node emits exactly the text of the general path for
\* the same attribute value, for every value kind and every combination of
\* autoescape, use_l10n and the thousand-separator setting.
C1_NoFilterEqualsGeneral ==
    ( /\ ForDone
      /\ Probe.k = "loopattr" /\ Probe.filter = "none"
      /\ \A it \in Elements : Variable_resolve_lookup(it, Probe.attr).k = "ok" )
    => call.res = GeneralPath(call.arg)

\* C2: the value used for loopvar.seg in LOOPATTR nodes and LOOPIF conditions
\* equals the result of the general resolution chain (key, index, attribute,
\* call), for every element kind on which the chain finds the segment.
C2_FastValueIsResolved ==
    ( ForDone /\ ProbeSegs # {} )
    => \A it \in Elements : \A seg \in ProbeSegs :
          Variable_resolve_lookup(it, seg).k = "ok"
          => FastValue(it, seg) = Variable_resolve_lookup(it, seg)

LookupErrors == {"KeyError", "IndexError", "AttributeError"}

\* C3: ForNode.render never raises because an element lacks the key, attribute
\* or index a body node names; the miss renders as the general path renders it
\* and the remaining nodes and iterations are rendered.
C3_MissNeverRaises ==
    ( ForDone /\ ProbeSegs # {} )
    => /\ call.res.k \notin LookupErrors
       /\ ( \A it \in Elements : \A seg \in ProbeSegs :
                Variable_resolve_lookup(it, seg).k # "ok" )
          => call.res = GeneralPath(call.arg)

HasComparison ==
    /\ Probe.k = "if" /\ _ntags(Probe) = 5
    /\ \E i \in 1..Len(Probe.conds) : _if_info(Probe.conds)[i].op >= OP_EQ

\* C4: a LOOPIF comparison never propagates the exception of the comparison:
\* the condition is falsy, the next clause is tried and ForNode.render returns
\* what the general path returns.
C4_ComparisonNeverRaises ==
    ( /\ ForDone /\ HasComparison
      /\ \A it \in Elements : \A seg \in ProbeSegs :
            FastValue(it, seg) = Variable_resolve_lookup(it, seg) )
    => /\ call.res.k # "TypeError"
       /\ call.res = GeneralPath(call.arg)

-----------------------------------------------------------------------------
(* IfNode.render and Operator.eval over bounded conditions *)

NoItem == [t |-> "scalar", m |-> EmptyMap, v |-> NoneV]

\* a condition of IfNode.render: true, None, one that signals a missing
\* variable, one that raises another error, and the faulting None > 5
IfConds ==
    { Lit("t", BoolV(TRUE)), Lit("f", NoneV), BadLit("d", "dne"), BadLit("e", "err"),
      Op(OP_GT, Lit("l", NoneV), Lit("r", IntV(5))) }

IfBodyText(i) == <<"B", Digit(i)>>

\* the clause lists of length 1..MaxClauses; an else clause only in last place
\* of a list of two or more
ClauseLists ==
    { [i \in 1..Len(q) |-> Clause(q[i], IfBodyText(i))] :
        q \in { r \in SeqsUpTo(IfConds \cup {ElseCond}, MaxClauses) :
                  /\ Len(r) >= 1
                  /\ \A i \in 1..Len(r) : r[i] = ElseCond => (i = Len(r) /\ i > 1) } }

LeafValues == {BoolV(TRUE), NoneV, IntV(5)}

\* the operands of a single comparison
CompareValues == LeafValues \cup {Str(<<"a">>), IntV(0)}

NestOps == {OP_OR, OP_AND, OP_IN, OP_GT}

\* the binary operators of ops over the operands lefts and rights
BinaryOver(ops, lefts, rights) == {Op(o, l, r) : o \in ops, l \in lefts, r \in rights}

RECURSIVE TreesWith(_, _)

\* the trees with n operators whose root is `not`
NotTrees(n, path) == {Op(OP_NOT, t, NoToken) : t \in TreesWith(n - 1, path \o "n")}

\* the trees with n operators whose root is binary with k operators on its left
BinaryTrees(n, k, path) ==
    BinaryOver(NestOps, TreesWith(k, path \o "l"), TreesWith(n - 1 - k, path \o "r"))

\* the expression trees with exactly n operators; a literal is named by its
\* path from the root
TreesWith(n, path) ==
    IF n = 0
    THEN {Lit(path, v) : v \in LeafValues} \cup {BadLit(path, "err")}
    ELSE NotTrees(n, path) \cup UNION {BinaryTrees(n, k, path) : k \in 0..(n - 1)}

\* every comparison operator over a pair of values
Comparisons ==
    {Op(o, Lit("el", l), Lit("er", r)) :
        o \in OP_IN..OP_LE, l \in CompareValues, r \in CompareValues}

\* a call of IfNode.render on a clause list, or of Operator.eval on a comparison
\* or on a tree of 1..MaxOps operators
InitIf ==
    /\ \/ call \in {Pending("IfNode.render", c) : c \in ClauseLists}
       \/ call \in {Pending("Operator.eval", t) : t \in Comparisons}
       \/ \E n \in 1..MaxOps :
             \/ call \in {Pending("Operator.eval", t) : t \in NotTrees(n, "e")}
             \/ \E k \in 0..(n - 1) :
                   call \in {Pending("Operator.eval", t) : t \in BinaryTrees(n, k, "e")}
    /\ context = InitContext
    /\ cycleLog = EmptyLog
    /\ NoRenders

IfNodeRender ==
    /\ call.op = "IfNode.render" /\ ~call.done
    /\ call' = [call EXCEPT !.done = TRUE, !.res = IfNode_render(call.arg, NoItem)]
    /\ UNCHANGED <<context, cycleLog, renders, nodes, renderer, _number_format_cache>>

OperatorEval ==
    /\ call.op = "Operator.eval" /\ ~call.done
    /\ call' = [call EXCEPT !.done = TRUE, !.res = Operator_eval(call.arg, NoItem)]
    /\ UNCHANGED <<context, cycleLog, renders, nodes, renderer, _number_format_cache>>

NextIf == IfNodeRender \/ OperatorEval

SpecIf == InitIf /\ [][NextIf]_vars

(* Properties of IfNode.render *)

IfDone == call.op = "IfNode.render" /\ call.done

\* the clause's condition holds: an else clause, or a condition whose eval
\* returns a truthy value
Selects(cl) ==
    \/ cl.cond.op_code = -2
    \/ LET r == eval(cl.cond, NoItem) IN r.k = "ok" /\ Truthy(r.v)

\* evaluating the clause's condition raises an error other than the missing
\* variable signal
Aborts(cl) ==
    /\ cl.cond.op_code # -2
    /\ eval(cl.cond, NoItem).k \notin {"ok", "VariableDoesNotExist"}

\* the first clause that selects or aborts, 0 when there is none
FirstStop(conds) ==
    LET stops == {i \in 1..Len(conds) : Selects(conds[i]) \/ Aborts(conds[i])}
    IN  IF stops = {} THEN 0 ELSE CHOOSE i \in stops : \A j \in stops : i <= j

UpTo(n) == [j \in 1..n |-> j]

\* C5: IfNode.render evaluates the conditions in order, renders the body of
\* the first pair whose condition is truthy (else counting as true), evaluates
\* no condition after it, returns empty text when no pair matches, and the
\* single-pair fast path returns what the general procedure returns.
C5_FirstTruthyClause ==
    IfDone =>
        LET conds == call.arg
            i == FirstStop(conds)
        IN  /\ i = 0 => call.res = IfRes("ok", <<>>, UpTo(Len(conds)))
            /\ (i > 0 /\ Selects(conds[i])) =>
                   call.res = IfRes("ok", conds[i].body,
                                    UpTo(IF conds[i].cond.op_code = -2 THEN i - 1 ELSE i))
            /\ Len(conds) = 1 =>
                   IfNode_single(conds, NoItem) = IfNode_general(conds, 1, NoItem, <<>>)

\* an elif clause was selected after a condition that signalled a missing
\* variable, and the clause after it was not evaluated
C5_Witness ==
    /\ IfDone /\ Len(call.arg) = 3
    /\ call.arg[1].cond = BadLit("d", "dne")
    /\ call.res = IfRes("ok", IfBodyText(2), <<1, 2>>)

(* Properties of Operator.eval *)

EvalDone == call.op = "Operator.eval" /\ call.done

RECURSIVE Leftmost(_)
\* the name of the literal a token evaluates first
Leftmost(tok) == IF tok.op_code = -1 THEN tok.value.name ELSE Leftmost(tok.first)

\* eval of the token ran during the call
Ran(tok) == \E i \in 1..Len(call.res.log) : call.res.log[i] = Leftmost(tok)

\* an exception was raised while the operator tok was evaluated: by a literal
\* operand it evaluated or by its comparison
RaisedAt(tok) ==
    LET L == eval(tok.first, NoItem)
        R == eval(tok.second, NoItem)
    IN  /\ tok.op_code >= 0
        /\ CASE tok.op_code = OP_NOT -> L.k # "ok"
             [] tok.op_code = OP_OR ->
                   L.k # "ok" \/ (~Truthy(L.v) /\ R.k # "ok")
             [] tok.op_code = OP_AND ->
                   L.k # "ok" \/ (Truthy(L.v) /\ R.k # "ok")
             [] OTHER ->
                   L.k # "ok" \/ R.k # "ok" \/ Compare(tok.op_code, L.v, R.v).k # "ok"

RECURSIVE SomeFault(_)
\* some operator of the tree was evaluated and raised
SomeFault(tok) ==
    /\ tok.op_code >= 0
    /\ Ran(tok)
    /\ \/ RaisedAt(tok)
       \/ SomeFault(tok.first)
       \/ (tok.op_code # OP_NOT /\ SomeFault(tok.second))

RECURSIVE ShortCircuits(_)
\* every `and` / `or` of the tree that was evaluated ran its right operand
\* only when required, and otherwise returned its left operand's value
ShortCircuits(tok) ==
    \/ tok.op_code < 0
    \/ ~Ran(tok)
    \/ /\ ShortCircuits(tok.first)
       /\ tok.op_code # OP_NOT => ShortCircuits(tok.second)
       /\ tok.op_code \in {OP_AND, OP_OR} =>
             LET L == eval(tok.first, NoItem)
                 required == /\ L.k = "ok"
                             /\ IF tok.op_code = OP_AND THEN Truthy(L.v) ELSE ~Truthy(L.v)
             IN  /\ Ran(tok.second) <=> required
                 /\ (L.k = "ok" /\ ~required) => eval(tok, NoItem) = L

\* C7: `and` evaluates its right operand only when the left operand is truthy,
\* `or` only when it is falsy; otherwise the right operand's eval never runs
\* and the result is the left operand's value.
C7_ShortCircuit == EvalDone => ShortCircuits(call.arg)

\* `None and <raising>`: the right operand did not run, the result is None
C7_Witness ==
    /\ EvalDone /\ call.arg.op_code = OP_AND
    /\ call.arg.first = Lit("el", NoneV)
    /\ call.arg.second = BadLit("er", "err")
    /\ call.res = EvOk(NoneV, <<"el">>)

-----------------------------------------------------------------------------
(* IfParser(tokens).parse() over bounded token sequences *)

Words == {"a", "b", "or", "and", "not", "in", "is", "=="}

InitParse ==
    /\ call \in {Pending("IfParser.parse", t) : t \in SeqsUpTo(Words, MaxTokens)}
    /\ context = InitContext
    /\ cycleLog = EmptyLog
    /\ NoRenders

IfParserParse ==
    /\ call.op = "IfParser.parse" /\ ~call.done
    /\ call' = [call EXCEPT !.done = TRUE, !.res = IfParser_parse(call.arg)]
    /\ UNCHANGED <<context, cycleLog, renders, nodes, renderer, _number_format_cache>>

NextParse == IfParserParse

SpecParse == InitParse /\ [][NextParse]_vars

(* The grouping Python gives the same tokens (Python's grammar: or_test,   *)
(* and_test, not_test, comparison).  All of in, not in, is, is not, ==,    *)
(* !=, >, >=, <, <= share one precedence level and chain: a op1 b op2 c    *)
(* is (a op1 b) and (b op2 c).                                             *)

PyCompOps == OperatorIds \ {"or", "and", "not"}

py_atom(toks, p) ==
    LET t == TokenAt(toks, p)
    IN  IF t = "" \/ t \in OperatorIds THEN PErr(p) ELSE POk(create_var(t), p + 1)

RECURSIVE py_chain(_, _, _, _, _)
\* the comparisons after the operand prev; acc is their conjunction so far
py_chain(toks, has, acc, prev, p) ==
    LET t == TokenAt(toks, p)
    IN  IF t \in PyCompOps
        THEN LET r == py_atom(toks, p + 1)
                 c == Op(OPERATORS(t).op_code, prev, r.left)
             IN  IF r.k # "ok" THEN r
                 ELSE py_chain(toks, TRUE, IF has THEN Op(OP_AND, acc, c) ELSE c,
                               r.left, r.p)
        ELSE POk(IF has THEN acc ELSE prev, p)

py_comparison(toks, p) ==
    LET r == py_atom(toks, p)
    IN  IF r.k # "ok" THEN r ELSE py_chain(toks, FALSE, r.left, r.left, r.p)

RECURSIVE py_not_test(_, _)
py_not_test(toks, p) ==
    IF TokenAt(toks, p) = "not"
    THEN LET r == py_not_test(toks, p + 1)
         IN  IF r.k # "ok" THEN r ELSE POk(Op(OP_NOT, r.left, NoToken), r.p)
    ELSE py_comparison(toks, p)

RECURSIVE py_and_rest(_, _, _)
py_and_rest(toks, left, p) ==
    IF TokenAt(toks, p) = "and"
    THEN LET r == py_not_test(toks, p + 1)
         IN  IF r.k # "ok" THEN r ELSE py_and_rest(toks, Op(OP_AND, left, r.left), r.p)
    ELSE POk(left, p)

py_and_test(toks, p) ==
    LET r == py_not_test(toks, p)
    IN  IF r.k # "ok" THEN r ELSE py_and_rest(toks, r.left, r.p)

RECURSIVE py_or_rest(_, _, _)
py_or_rest(toks, left, p) ==
    IF TokenAt(toks, p) = "or"
    THEN LET r == py_and_test(toks, p + 1)
         IN  IF r.k # "ok" THEN r ELSE py_or_rest(toks, Op(OP_OR, left, r.left), r.p)
    ELSE POk(left, p)

PyParse(tokens) ==
    LET toks == mapped_tokens(tokens)
        r == py_and_test(toks, 1)
        q == IF r.k # "ok" THEN r ELSE py_or_rest(toks, r.left, r.p)
    IN  IF q.k # "ok" THEN q
        ELSE IF TokenAt(toks, q.p) # "" THEN PErr(q.p)
        ELSE q

ParseDone == call.op = "IfParser.parse" /\ call.done

\* C8: for every token sequence that is a well-formed expression, IfParser
\* builds the tree that Python's precedence and associativity give it.
C8_TreeIsPythons ==
    (ParseDone /\ PyParse(call.arg).k = "ok") =>
        (call.res.k = "ok" /\ call.res.left = PyParse(call.arg).left)

-----------------------------------------------------------------------------
(* One render call of a template holding the cycle nodes, their            *)
(* {% resetcycle %} tags and {% for %} loops around them.  cycleLog[n]     *)
(* records, in order, the renders and resets of node n: a render with the  *)
(* value selected, the text returned and the scope depth it happened at.   *)

InitCycle ==
    /\ call = Idle
    /\ context \in {[InitContext EXCEPT !.autoescape = a] : a \in BOOLEAN}
    /\ cycleLog = EmptyLog
    /\ NoRenders

RECURSIVE SumLen(_, _)
SumLen(log, S) ==
    IF S = {} THEN 0
    ELSE LET n == CHOOSE x \in S : TRUE IN Len(log[n]) + SumLen(log, S \ {n})

Events == SumLen(cycleLog, CycleNodes)

\* CycleNode.render of node n
CycleRender(n) ==
    /\ Events < MaxEvents
    /\ LET r == CycleNode_render(context, n, DefaultEnv)
       IN  /\ context' = r.ctx
           /\ cycleLog' = [cycleLog EXCEPT ![n] =
                  Append(@, [ev |-> "render", v |-> r.sel, out |-> r.out,
                             depth |-> Len(context.dicts)])]
    /\ UNCHANGED <<call, renders, nodes, renderer, _number_format_cache>>

\* ResetCycleNode.render of the tag that references node n
ResetCycle(n) ==
    /\ Events < MaxEvents
    /\ context' = ResetCycleNode_render(context, n)
    /\ cycleLog' = [cycleLog EXCEPT ![n] =
           Append(@, [ev |-> "reset", v |-> NoneV, out |-> <<>>,
                      depth |-> Len(context.dicts)])]
    /\ UNCHANGED <<call, renders, nodes, renderer, _number_format_cache>>

\* ForNode.render enters a loop: context.dicts.append({})
LoopEnter ==
    /\ Len(context.dicts) <= MaxDepth
    /\ context' = [context EXCEPT !.dicts = Append(@, EmptyMap)]
    /\ UNCHANGED <<call, cycleLog, renders, nodes, renderer, _number_format_cache>>

\* ForNode.render leaves the loop: context.dicts.pop()
LoopExit ==
    /\ Len(context.dicts) > 1
    /\ context' = [context EXCEPT !.dicts = SubSeq(@, 1, Len(@) - 1)]
    /\ UNCHANGED <<call, cycleLog, renders, nodes, renderer, _number_format_cache>>

NextCycle ==
    \/ \E n \in CycleNodes : CycleRender(n)
    \/ \E n \in CycleNodes : ResetCycle(n)
    \/ LoopEnter
    \/ LoopExit

SpecCycle == InitCycle /\ [][NextCycle]_vars

(* Properties of CycleNode and ResetCycleNode *)

\* the text a cycle value renders as (no value of the nodes needs escaping)
Emitted(v) == IF v.t = "int" THEN IntToStr(v.n) ELSE v.s

NoReset(log) == \A i \in 1..Len(log) : log[i].ev = "render"

\* the position of the last reset before entry i of the log, 0 if none
LastReset(log, i) ==
    LET rs == {r \in 1..(i - 1) : log[r].ev = "reset"}
    IN  IF rs = {} THEN 0 ELSE CHOOSE r \in rs : \A q \in rs : q <= r

\* the position the render_context holds for node n
StoredPos(n) ==
    IF n \in DOMAIN context.render_context THEN context.render_context[n].pos ELSE 0

\* C9: the i-th render (i = 0, 1, ...) of a cycle node with k values emits
\* values[i mod k], on the pre-resolved path and on the general path,
\* whatever scopes were pushed or popped between the renders.
C9_CycleInOrder ==
    \A n \in CycleNodes :
        LET log == cycleLog[n]
            vals == CycleNode(n).cyclevars
        IN  NoReset(log) =>
                \A i \in 1..Len(log) :
                    /\ log[i].v = vals[((i - 1) % Len(vals)) + 1]
                    /\ log[i].out = Emitted(vals[((i - 1) % Len(vals)) + 1])

\* the literal cycle wrapped around after a loop was left and entered again
C9_Witness ==
    /\ Len(cycleLog["c1"]) = 4 /\ NoReset(cycleLog["c1"])
    /\ cycleLog["c1"][2].depth = 2
    /\ cycleLog["c1"][3].depth = 1
    /\ cycleLog["c1"][4].depth = 2
    /\ cycleLog["c1"][4].out = <<"a">>

\* C10: after a reset of a cycle node its next render emits values[0] and
\* the following ones values[1], values[2], ..., on both paths and from any
\* position; the state of every node depends on its own renders and resets
\* only, so a reset changes no other node.
C10_ResetRestarts ==
    \A n \in CycleNodes :
        LET log == cycleLog[n]
            vals == CycleNode(n).cyclevars
        IN  /\ \A i \in 1..Len(log) :
                  (log[i].ev = "render" /\ LastReset(log, i) > 0) =>
                      LET j == i - LastReset(log, i) - 1
                      IN  /\ log[i].v = vals[(j % Len(vals)) + 1]
                          /\ log[i].out = Emitted(vals[(j % Len(vals)) + 1])
            /\ StoredPos(n) = (Len(log) - LastReset(log, Len(log) + 1)) % Len(vals)

\* the literal cycle was reset at its second position and rendered values[0]
\* again, while the general-path cycle, never reset, kept its position
C10_Witness ==
    /\ Len(cycleLog["c1"]) = 3
    /\ cycleLog["c1"][1].ev = "render"
    /\ cycleLog["c1"][2].ev = "reset"
    /\ cycleLog["c1"][3].out = <<"a">>
    /\ Len(cycleLog["c2"]) = 1 /\ StoredPos("c2") = 1

-----------------------------------------------------------------------------
(* Emission of text: one render of a cycle node whose values are all       *)
(* literal strings, from every stored position and under both values of    *)
(* the autoescape flag, and one call of conditional_escape on a str.       *)

\* the characters of the texts: a letter and the five html.escape rewrites
TextChars == {"a", "<", ">", "&", "\"", "'"}

Texts == SeqsUpTo(TextChars, MaxText)

\* the render_context of a render that reaches node n: nothing stored yet,
\* or the index left by the renders before
StoredIndex(n) ==
    {EmptyMap} \cup {MapSet(EmptyMap, n, [kind |-> "int", pos |-> i]) :
                         i \in 0..(_n(CycleNode(n)) - 1)}

\* the functions of html.py and safestring.py a value passes through
EscapingOps == {"conditional_escape", "escape", "mark_safe"}

\* the values at the start of a chain: short texts, tagged safe or not
ChainValues ==
    {Str(s) : s \in SeqsUpTo(TextChars, MaxText - 1)}
        \cup {SafeStr(s) : s \in SeqsUpTo(TextChars, MaxText - 1)}

EscapingOp(op, v) ==
    CASE op = "conditional_escape" -> conditional_escape(v)
      [] op = "escape" -> escape(v)
      [] OTHER -> mark_safe(v)

InitText ==
    /\ cycleLog = EmptyLog
    /\ NoRenders
    /\ \/ \E n \in LiteralNodes, a \in BOOLEAN : \E rc \in StoredIndex(n) :
            /\ context = [InitContext EXCEPT !.autoescape = a, !.render_context = rc]
            /\ call = Pending("cycle", [n |-> n, ctx |-> context])
       \/ /\ context = InitContext
          /\ call \in {Pending("conditional_escape", s) : s \in Texts}
       \/ /\ context = InitContext
          /\ \E n \in 1..MaxChain :
                call \in {Pending("escaping", [v |-> v, ops |-> o]) :
                              v \in ChainValues, o \in [1..n -> EscapingOps]}

\* CycleNode.render of the literal node call.arg.n
CycleLiteralRender ==
    /\ call.op = "cycle" /\ ~call.done
    /\ LET r == CycleNode_render(context, call.arg.n, DefaultEnv)
       IN  /\ call' = [call EXCEPT !.done = TRUE, !.res = r.out]
           /\ context' = r.ctx
    /\ UNCHANGED <<cycleLog, renders, nodes, renderer, _number_format_cache>>

\* conditional_escape(s) of a str s that is not tagged safe
ConditionalEscape ==
    /\ call.op = "conditional_escape" /\ ~call.done
    /\ call' = [call EXCEPT !.done = TRUE, !.res = conditional_escape(Str(call.arg))]
    /\ UNCHANGED <<context, cycleLog, renders, nodes, renderer, _number_format_cache>>

\* the next function of the chain call.arg.ops is applied to the value the
\* one before returned; call.res holds the values returned so far
ApplyEscaping ==
    /\ call.op = "escaping" /\ ~call.done
    /\ LET k == Len(call.res) + 1
           v == IF k = 1 THEN call.arg.v ELSE call.res[k - 1]
       IN  call' = [call EXCEPT !.res = Append(@, EscapingOp(call.arg.ops[k], v)),
                                !.done = (k = Len(call.arg.ops))]
    /\ UNCHANGED <<context, cycleLog, renders, nodes, renderer, _number_format_cache>>

NextText == CycleLiteralRender \/ ConditionalEscape \/ ApplyEscaping

SpecText == InitText /\ [][NextText]_vars

CycleDone == call.op = "cycle" /\ call.done

\* the Context of the same render on the general path: the state stored for
\* node n is an itertools.cycle at the same position
AsGeneral(ctx, n) ==
    LET rc == ctx.render_context
    IN  IF n \in DOMAIN rc
        THEN [ctx EXCEPT !.render_context =
                 MapSet(rc, n, [kind |-> "cycle", pos |-> rc[n].pos])]
        ELSE ctx

EscapeDone == call.op = "conditional_escape" /\ call.done

RECURSIVE NaiveEscape(_)
\* the escaping of every character on its own: & < > " ' become &amp; &lt;
\* &gt; &quot; &#x27; and every other character stays
NaiveEscape(s) ==
    IF s = <<>> THEN <<>>
    ELSE LET c == Head(s)
             e == CASE c = "&" -> <<"&", "a", "m", "p", ";">>
                    [] c = "<" -> <<"&", "l", "t", ";">>
                    [] c = ">" -> <<"&", "g", "t", ";">>
                    [] c = "\"" -> <<"&", "q", "u", "o", "t", ";">>
                    [] c = "'" -> <<"&", "#", "x", "2", "7", ";">>
                    [] OTHER -> <<c>>
         IN  e \o NaiveEscape(Tail(s))

\* C20: for every str that is not tagged safe and has no __html__ hook,
\* conditional_escape returns what escaping every character would return,
\* and returns the string unchanged when it holds none of & < > " '.
C20_ScanEqualsNaiveEscape ==
    EscapeDone =>
        /\ call.res.t = "str"
        /\ call.res.s = NaiveEscape(call.arg)
        /\ (\A i \in 1..Len(call.arg) : call.arg[i] \notin SpecialChars)
               => call.res.s = call.arg

\* a text holding only a quote and an ampersand was escaped
C20_Witness ==
    /\ EscapeDone
    /\ call.arg = <<"'", "a", "&">>
    /\ call.res.s = <<"&", "#", "x", "2", "7", ";", "a", "&", "a", "m", "p", ";">>

-----------------------------------------------------------------------------
(* backend.py: render calls of two threads through _Template.render and    *)
(* through the render method of one CythonizedFormRenderer.  renders[t] is  *)
(* the call of thread t: its method, the dict it was handed, its position  *)
(* and the Context it works on (an index into renderer.contexts, 0 before  *)
(* it has one).  A step is one statement of the method.                    *)

Threads == {"t1", "t2"}

\* the dicts the callers hand over: {"widget": 1} and {"widget": 2}
WidgetDicts == {MapOf("widget", IntV(w)) : w \in 1..2}

RECURSIVE Context_get(_, _)
\* Context lookup: the frames are scanned innermost first
Context_get(dicts, key) ==
    IF dicts = <<>> THEN [found |-> FALSE, v |-> NoneV]
    ELSE LET top == dicts[Len(dicts)]
         IN  IF key \in DOMAIN top THEN [found |-> TRUE, v |-> top[key]]
             ELSE Context_get(SubSeq(dicts, 1, Len(dicts) - 1), key)

\* Context(autoescape=True): the scope stack holds the builtins frame only
NewContext == InitContext

\* make_context(context, ...): a new Context with the caller's dict pushed
make_context(d) == [InitContext EXCEPT !.dicts = Append(@, d)]

InitForm ==
    /\ call = Idle
    /\ context = InitContext
    /\ cycleLog = EmptyLog
    /\ nodes = <<>>
    /\ renderer = [_ctx |-> 0, contexts |-> <<>>]
    /\ _number_format_cache = <<>>
    /\ renders \in [Threads -> {[op |-> o, arg |-> d, pc |-> "start", ctx |-> 0,
                                 out |-> NoneV] :
                                    o \in {"_Template.render", "FormRenderer.render"},
                                    d \in WidgetDicts}]

\* _Template.render, line 61: context = make_context(context, request, ...)
TemplateMakeContext(t) ==
    /\ renders[t].op = "_Template.render" /\ renders[t].pc = "start"
    /\ renderer' = [renderer EXCEPT !.contexts = Append(@, make_context(renders[t].arg))]
    /\ renders' = [renders EXCEPT ![t].ctx = Len(renderer.contexts) + 1,
                                  ![t].pc = "render"]
    /\ UNCHANGED <<call, context, cycleLog, nodes, _number_format_cache>>

\* CythonizedFormRenderer.render, line 85: ctx = self._ctx
FormGetCtx(t) ==
    /\ renders[t].op = "FormRenderer.render" /\ renders[t].pc = "start"
    /\ renders' = [renders EXCEPT ![t].ctx = renderer._ctx,
                                  ![t].pc = IF renderer._ctx = 0 THEN "create" ELSE "push"]
    /\ UNCHANGED <<call, context, cycleLog, nodes, renderer, _number_format_cache>>

\* lines 86-88: ctx = Context(autoescape=True); self._ctx = ctx
FormCreateCtx(t) ==
    /\ renders[t].pc = "create"
    /\ renderer' = [_ctx |-> Len(renderer.contexts) + 1,
                    contexts |-> Append(renderer.contexts, NewContext)]
    /\ renders' = [renders EXCEPT ![t].ctx = Len(renderer.contexts) + 1,
                                  ![t].pc = "push"]
    /\ UNCHANGED <<call, context, cycleLog, nodes, _number_format_cache>>

\* line 90: ctx.dicts.append(context)
FormPush(t) ==
    /\ renders[t].pc = "push"
    /\ renderer' = [renderer EXCEPT !.contexts[renders[t].ctx].dicts =
                       Append(@, renders[t].arg)]
    /\ renders' = [renders EXCEPT ![t].pc = "render"]
    /\ UNCHANGED <<call, context, cycleLog, nodes, _number_format_cache>>

\* lines 64 and 92: the template renders {{ widget }} against the Context
TemplateRender(t) ==
    /\ renders[t].pc = "render"
    /\ renders' = [renders EXCEPT
           ![t].out = Context_get(renderer.contexts[renders[t].ctx].dicts, "widget").v,
           ![t].pc = IF renders[t].op = "FormRenderer.render" THEN "pop" ELSE "done"]
    /\ UNCHANGED <<call, context, cycleLog, nodes, renderer, _number_format_cache>>

\* lines 93-94: finally: ctx.dicts.pop()
FormPop(t) ==
    /\ renders[t].pc = "pop"
    /\ renderer' = [renderer EXCEPT !.contexts[renders[t].ctx].dicts =
                       SubSeq(@, 1, Len(@) - 1)]
    /\ renders' = [renders EXCEPT ![t].pc = "done"]
    /\ UNCHANGED <<call, context, cycleLog, nodes, _number_format_cache>>

NextForm ==
    \E t \in Threads :
        \/ TemplateMakeContext(t)
        \/ FormGetCtx(t)
        \/ FormCreateCtx(t)
        \/ FormPush(t)
        \/ TemplateRender(t)
        \/ FormPop(t)

SpecForm == InitForm /\ [][NextForm]_vars

\* the render call of thread t works on a Context: it has pushed on it, is
\* rendering against it or has its pop ahead
InUse(t) == renders[t].pc \in {"render", "pop"}

\* C13: no Context object is in use by two render calls at once: every
\* render through _Template.render or CythonizedFormRenderer.render works on
\* a scope stack that no render running at the same time pushes on, pops
\* from or reads.
C13_ContextNeverShared ==
    \A t, u \in Threads :
        (t # u /\ InUse(t) /\ InUse(u)) => renders[t].ctx # renders[u].ctx

-----------------------------------------------------------------------------
(* ForNode.render step by step.  A render call walks a compiled tree of    *)
(* {% for %} nodes; the tree is shared, the Context is the call's own.     *)
(* A body node is [k, s, name, path, id]: a TextNode (s), {{ name }},      *)
(* {{ forloop.<path> }}, a nested {% for %} (id), a {% cycle %} (id) or an *)
(* {% ifchanged name %}N{% endifchanged %} (id).                           *)

LText(s) == [k |-> "text", s |-> s, name |-> "", path |-> <<>>, id |-> ""]
LVar(name) == [k |-> "var", s |-> <<>>, name |-> name, path |-> <<>>, id |-> ""]
LProbe(path) == [k |-> "probe", s |-> <<>>, name |-> "forloop", path |-> path, id |-> ""]
LFor(id) == [k |-> "for", s |-> <<>>, name |-> "", path |-> <<>>, id |-> id]
LCycle(id) == [k |-> "cycle", s |-> <<>>, name |-> "", path |-> <<>>, id |-> id]
LIfChanged(id, name) ==
    [k |-> "ifchanged", s |-> <<>>, name |-> name, path |-> <<>>, id |-> id]

\* the {% for %} nodes of the compiled templates
\* outer:  {% for o in outers %}{% for i in inners reversed %}...{% endfor %}
\*             {{ forloop.revcounter }};{% empty %}E{% endfor %}
\* inner:  {{ forloop.parentloop.counter }}.{{ forloop.counter }}{{ i }}{% empty %}e
\* pair:   {% for a, b in pairs %}{{ a }}{% for c in b %}{{ c }}{% endfor %}
\*             {% empty %}E{% endfor %}
\* flat:   {% for x in items reversed %}{{ x }},{% empty %}E{% endfor %}
\* state:  {% for x in items %}{% cycle 'a' 'b' 'c' %}{% ifchanged x %}N
\*             {% endifchanged %}{{ forloop.last }}{% empty %}E{% endfor %}
\* grp:    {% for o in outers %}{% for x in items %}...{% endfor %};{% endfor %}
\* chg:    {% for x in items %}{% ifchanged %}{{ x }}{% else %}-{% endifchanged %}
\*             {% ifchanged x %}N{% else %}={% endifchanged %}
\*             {% ifchanged %}{% cycle '' 'q' '&<' '>' %}{% endifchanged %}{% endfor %}
ForNodeIds == {"outer", "inner", "pair", "each", "flat", "state", "grp", "chg"}

ForNodeDef(id) ==
    CASE id = "outer" ->
           [loopvars |-> <<"o">>, sequence |-> "outers", is_reversed |-> FALSE,
            nodelist_loop |-> <<LFor("inner"), LProbe(<<"revcounter">>), LText(<<";">>)>>,
            nodelist_empty |-> <<"E">>]
      [] id = "inner" ->
           [loopvars |-> <<"i">>, sequence |-> "inners", is_reversed |-> TRUE,
            nodelist_loop |-> <<LProbe(<<"parentloop", "counter">>), LText(<<".">>),
                                LProbe(<<"counter">>), LVar("i")>>,
            nodelist_empty |-> <<"e">>]
      [] id = "pair" ->
           [loopvars |-> <<"a", "b">>, sequence |-> "pairs", is_reversed |-> FALSE,
            nodelist_loop |-> <<LVar("a"), LFor("each")>>,
            nodelist_empty |-> <<"E">>]
      [] id = "each" ->
           [loopvars |-> <<"c">>, sequence |-> "b", is_reversed |-> FALSE,
            nodelist_loop |-> <<LVar("c")>>,
            nodelist_empty |-> <<>>]
      [] id = "flat" ->
           [loopvars |-> <<"x">>, sequence |-> "items", is_reversed |-> TRUE,
            nodelist_loop |-> <<LVar("x"), LText(<<",">>)>>,
            nodelist_empty |-> <<"E">>]
      [] id = "grp" ->
           [loopvars |-> <<"o">>, sequence |-> "outers", is_reversed |-> FALSE,
            nodelist_loop |-> <<LFor("chg"), LText(<<";">>)>>,
            nodelist_empty |-> <<>>]
      [] id = "chg" ->
           [loopvars |-> <<"x">>, sequence |-> "items", is_reversed |-> FALSE,
            nodelist_loop |-> <<LIfChanged("ib", ""), LIfChanged("iv", "x"),
                                LIfChanged("iy", "")>>,
            nodelist_empty |-> <<>>]
      [] OTHER ->
           [loopvars |-> <<"x">>, sequence |-> "items", is_reversed |-> FALSE,
            nodelist_loop |-> <<LCycle("c1"), LIfChanged("ic", "x"),
                                LProbe(<<"last">>)>>,
            nodelist_empty |-> <<"E">>]

\* a list or tuple value
ListV(items) == [t |-> "list", items |-> items]

\* the reference to a CForloopContext object of the render call
LoopRef(id) == [t |-> "forloop", id |-> id]

\* CForloopContext.__init__
CForloopContext(length, parentloop) ==
    [_i |-> 0, _length |-> length, _parentloop |-> parentloop, _extra |-> EmptyMap]

\* a revcounter that counts from length - 1
CForloopContext_getitem_short(fr, key) ==
    CASE key = "counter0" -> IntV(fr._i)
      [] key = "counter" -> IntV(fr._i + 1)
      [] key = "revcounter" -> IntV(fr._length - fr._i - 1)
      [] key = "revcounter0" -> IntV(fr._length - fr._i - 1)
      [] key = "first" -> BoolV(fr._i = 0)
      [] key = "last" -> BoolV(fr._i = fr._length - 1)
      [] key = "length" -> IntV(fr._length)
      [] key = "parentloop" -> LoopRef(fr._parentloop)
      [] OTHER -> NoneV

\* CForloopContext.__getitem__ for the keys computed on demand
CForloopContext_getitem(fr, key) ==
    CASE key = "counter0" -> IntV(fr._i)
      [] key = "counter" -> IntV(fr._i + 1)
      [] key = "revcounter" -> IntV(fr._length - fr._i)
      [] key = "revcounter0" -> IntV(fr._length - fr._i - 1)
      [] key = "first" -> BoolV(fr._i = 0)
      [] key = "last" -> BoolV(fr._i = fr._length - 1)
      [] key = "length" -> IntV(fr._length)
      [] key = "parentloop" -> LoopRef(fr._parentloop)
      [] OTHER -> NoneV

(* The state of a render call: input (the root node, the data and the     *)
(* engine's debug flag), ctx (its Context), loops (the CForloopContext    *)
(* objects it created, a reference is an index), stack (the ForNode.render *)
(* calls under way, innermost last), exc (the exception propagating),     *)
(* status, out (the text returned) and exits (history: one record per     *)
(* ForNode.render call that returned or raised).                          *)

Pop(q) == SubSeq(q, 1, Len(q) - 1)

\* sequence.resolve(context, ignore_failures=True): a missing variable is None
Sequence_resolve(dicts, name) ==
    LET r == Context_get(dicts, name) IN IF r.found THEN r.v ELSE NoneV

\* lines 351-355: None counts as []; a value without __len__ goes through
\* list(), which raises TypeError when the value is not iterable
ForNode_values(v) ==
    CASE v.t = "none" -> Ok(ListV(<<>>))
      [] v.t = "list" -> Ok(v)
      [] OTHER -> Raise("TypeError")

\* a test that lets the loop start on an empty source
IsEmptySource_never(len_values) == len_values < 0

\* line 357: len_values < 1
IsEmptySource(len_values) == len_values < 1

\* lines 781-784: len(item), 1 for an item without length
len_item(item) == IF item.t = "list" THEN Len(item.items) ELSE 1

\* a check that accepts an item longer than the loop variables
UnpackMismatch_short(num_loopvars, n) == num_loopvars > n

\* line 786: num_loopvars != len_item
UnpackMismatch(num_loopvars, n) == num_loopvars # n

\* dict(zip(self.loopvars, item))
Zip(loopvars, items) ==
    LET m == IF Len(loopvars) < Len(items) THEN Len(loopvars) ELSE Len(items)
    IN  [x \in {loopvars[q] : q \in 1..m} |->
            items[CHOOSE q \in 1..m : loopvars[q] = x]]

ExitRec(id, how, src, entry, after, text, made, i) ==
    [id |-> id, how |-> how, src |-> src, entry |-> entry, after |-> after,
     out |-> text, made |-> made, i |-> i]

\* the value a ForNode.render or the root render returns goes to its caller:
\* the body loop of the enclosing ForNode.render stores it and moves on
Deliver(rs, text) ==
    IF rs.stack = <<>> THEN [rs EXCEPT !.status = "done", !.out = text]
    ELSE [rs EXCEPT !.stack[Len(rs.stack)].acc = @ \o text,
                    !.stack[Len(rs.stack)].j = @ + 1]

\* an exception leaves a call: with no ForNode.render left it reaches the
\* caller of the render call
Propagate(rs, e) ==
    IF rs.stack = <<>> THEN [rs EXCEPT !.status = "raised", !.exc = e]
    ELSE [rs EXCEPT !.exc = e]

\* a parentloop that is always the empty dict
parentloop_of_none(dicts) == 0

\* lines 344-347: context["forloop"] if "forloop" in context, else {} (0)
parentloop_of(dicts) ==
    LET fl == Context_get(dicts, "forloop") IN IF fl.found THEN fl.v.id ELSE 0

\* ForNode.render, lines 344-546: from the call to the start of the loop
ForNode_enter(rs, id) ==
    LET nd == ForNodeDef(id)
        entry == rs.ctx.dicts
        parentloop == parentloop_of(entry)
        dicts1 == Append(entry, EmptyMap)
        src == Sequence_resolve(dicts1, nd.sequence)
        vals == ForNode_values(src)
        unpack == Len(nd.loopvars) > 1
        path == IF ~needs_ctx_write(nd.nodelist_loop, unpack, rs.input.debug) THEN "ultra"
                ELSE IF ~unpack /\ ~rs.input.debug THEN "optimized"
                ELSE "general"
    IN  IF vals.k # "ok"
        THEN Propagate([rs EXCEPT !.exits = Append(@,
                 ExitRec(id, vals.k, src, entry, Pop(dicts1), <<>>, 0, 0))], vals.k)
        ELSE IF IsEmptySource(Len(vals.v.items))
        THEN Deliver([rs EXCEPT !.exits = Append(@,
                 ExitRec(id, "empty", src, entry, Pop(dicts1),
                         nd.nodelist_empty, 0, 0))],
                 nd.nodelist_empty)
        ELSE LET loop == Len(rs.loops) + 1
                 values == IF nd.is_reversed THEN Reverse(vals.v.items) ELSE vals.v.items
             IN  [rs EXCEPT
                    !.loops = Append(@, CForloopContext(Len(values), parentloop)),
                    !.ctx.dicts = Append(entry, MapOf("forloop", LoopRef(loop))),
                    !.stack = Append(@, [id |-> id, values |-> values, src |-> src,
                                         i |-> 0, j |-> 1, acc |-> <<>>, loop |-> loop,
                                         pop_context |-> FALSE, path |-> path,
                                         pc |-> "iter", entry |-> entry])]

\* the head of the loop (lines 553-554, 573-575, 774-797): the next element
\* is bound, or the loop is over and the call returns through its finally
ForNode_iterate(rs) ==
    LET k == Len(rs.stack)
        a == rs.stack[k]
        nd == ForNodeDef(a.id)
    IN  IF a.i >= Len(a.values)
        THEN Deliver([rs EXCEPT !.ctx.dicts = Pop(@),
                                !.stack = Pop(@),
                                !.exits = Append(@, ExitRec(a.id, "return", a.src, a.entry,
                                              Pop(rs.ctx.dicts), a.acc, 1, a.i))],
                     a.acc)
        ELSE LET item == a.values[a.i + 1]
                 rs1 == [rs EXCEPT !.loops[a.loop]._i = a.i,
                                   !.stack[k].pc = "body", !.stack[k].j = 1]
                 top == Len(a.entry) + 1
             IN  IF a.path = "ultra" THEN rs1
                 ELSE IF Len(nd.loopvars) = 1
                 THEN [rs1 EXCEPT !.ctx.dicts[top] = MapSet(@, nd.loopvars[1], item)]
                 ELSE IF UnpackMismatch(Len(nd.loopvars), len_item(item))
                 THEN [rs EXCEPT !.loops[a.loop]._i = a.i, !.exc = "ValueError"]
                 ELSE [rs1 EXCEPT !.ctx.dicts = Append(@, Zip(nd.loopvars,
                                        IF item.t = "list" THEN item.items ELSE <<item>>)),
                                  !.stack[k].pop_context = TRUE]

RECURSIVE ResolveFrom(_, _, _)
\* the lookup of the remaining segments of {{ forloop.<path> }} on v; a
\* segment that cannot be found yields string_if_invalid
ResolveFrom(loops, v, path) ==
    IF path = <<>> THEN v
    ELSE IF v.t = "forloop" /\ v.id > 0
    THEN ResolveFrom(loops, CForloopContext_getitem(loops[v.id], Head(path)), Tail(path))
    ELSE Str(<<>>)

\* IfChangedNode._get_context_stack_frame with the state kept on the node
_get_context_stack_frame_self(dicts) == "self"

\* IfChangedNode._get_context_stack_frame: the forloop frame inside a loop,
\* the render_context outside
_get_context_stack_frame(dicts) ==
    IF Context_get(dicts, "forloop").found THEN "forloop" ELSE "render_context"

\* the bodies of the {% ifchanged %} nodes: ic and iv list the variable
\* nd.name, ib and iy list none and compare what their body renders
IfChangedDef(id) ==
    CASE id = "ib" -> [nodelist_true |-> <<LVar("x")>>, nodelist_false |-> <<LText(<<"-">>)>>]
      [] id = "iv" -> [nodelist_true |-> <<LText(<<"N">>)>>,
                       nodelist_false |-> <<LText(<<"=">>)>>]
      [] id = "iy" -> [nodelist_true |-> <<LCycle("e3")>>, nodelist_false |-> <<>>]
      [] OTHER -> [nodelist_true |-> <<LText(<<"N">>)>>, nodelist_false |-> <<>>]

\* the text a body node other than a cycle node renders
IfChanged_node_text(ctx, b) ==
    IF b.k = "text" THEN b.s
    ELSE LET r == Context_get(ctx.dicts, b.name)
         IN  render_value_in_context(IF r.found THEN r.v ELSE Str(<<>>), ctx, DefaultEnv)

\* [ctx, out] from the [ctx, sel, out] of CycleNode.render
IfChanged_cycle(r) == [ctx |-> r.ctx, out |-> r.out]

\* self.nodelist_true.render(context) / self.nodelist_false.render(context):
\* [ctx, out] for a body of at most one text, variable or cycle node
IfChanged_nodelist_render(ctx, nodelist) ==
    IF nodelist = <<>> THEN [ctx |-> ctx, out |-> <<>>]
    ELSE IF nodelist[1].k = "cycle"
    THEN IfChanged_cycle(CycleNode_render(ctx, nodelist[1].id, DefaultEnv))
    ELSE [ctx |-> ctx, out |-> IfChanged_node_text(ctx, nodelist[1])]

\* lines 858-864 once the body that follows the comparison has rendered:
\* the state is stored and the render leaves a record in rs.changes
IfChangedNode_return(rs, nds, nd, loc, first, cmp, second) ==
    LET fid == Context_get(rs.ctx.dicts, "forloop").v.id
        top == IF rs.stack = <<>> THEN [loop |-> 0, i |-> 0] ELSE rs.stack[Len(rs.stack)]
        rs1 == [rs EXCEPT !.ctx = second.ctx,
                          !.changes = Append(@,
                              [id |-> nd.id,
                               loop |-> IF loc = "forloop" THEN fid ELSE 0,
                               run |-> top.loop, i |-> top.i,
                               compare_to |-> cmp.compare_to, stored |-> cmp.stored,
                               trues |-> (IF nd.name = "" THEN 1 ELSE 0)
                                            + (IF cmp.again THEN 1 ELSE 0),
                               falses |-> IF ~cmp.changed
                                             /\ IfChangedDef(nd.id).nodelist_false # <<>>
                                          THEN 1 ELSE 0,
                               once |-> IF nd.name = "" THEN first.out ELSE second.out,
                               out |-> second.out])]
    IN  [rs |-> CASE loc = "forloop" ->
                       [rs1 EXCEPT !.loops[fid]._extra = MapSet(@, nd.id, cmp.state)]
                  [] loc = "render_context" ->
                       [rs1 EXCEPT !.ctx.render_context = MapSet(@, nd.id, cmp.state)]
                  [] OTHER -> rs1,
         nodes |-> IF loc \in {"forloop", "render_context"} THEN nds
                   ELSE MapSet(nds, nd.id, cmp.state),
         out |-> second.out]

\* lines 858-863: the true-body again when its output is not there or is
\* empty, the else-body when nothing changed
IfChangedNode_branch(rs, nds, nd, loc, first, cmp) ==
    IfChangedNode_return(rs, nds, nd, loc, first, cmp,
        IF cmp.again \/ ~cmp.changed
        THEN IfChanged_nodelist_render(first.ctx,
                 IF cmp.again THEN IfChangedDef(nd.id).nodelist_true
                 ELSE IfChangedDef(nd.id).nodelist_false)
        ELSE first)

\* lines 843-858 after the body was rendered for the comparison: the state
\* is <<>> for None and <<value>> once a value was stored
IfChangedNode_compare(rs, nds, nd, loc, first) ==
    LET state_frame == CASE loc = "forloop" ->
                               rs.loops[Context_get(rs.ctx.dicts, "forloop").v.id]._extra
                         [] loc = "render_context" -> rs.ctx.render_context
                         [] OTHER -> nds
        stored == IF nd.id \in DOMAIN state_frame THEN state_frame[nd.id] ELSE <<>>
        compare_to == IF nd.name = "" THEN <<SafeStr(first.out)>>
                      ELSE <<Sequence_resolve(rs.ctx.dicts, nd.name)>>
    IN  IfChangedNode_branch(rs, nds, nd, loc, first,
            [compare_to |-> compare_to, stored |-> stored,
             changed |-> compare_to # stored,
             state |-> IF compare_to # stored THEN compare_to ELSE stored,
             again |-> compare_to # stored /\ first.out = <<>>])

\* IfChangedNode.render; nds are the fields of the nodes.  Without listed
\* variables the true-body is rendered first and its output compared
IfChangedNode_render(rs, nds, nd) ==
    IfChangedNode_compare(rs, nds, nd, _get_context_stack_frame(rs.ctx.dicts),
        IF nd.name = ""
        THEN IfChanged_nodelist_render(rs.ctx, IfChangedDef(nd.id).nodelist_true)
        ELSE [ctx |-> rs.ctx, out |-> <<>>])

\* one pass of the inner loop over the body nodes (lines 556-566, 576-772,
\* 799-822): the next body node renders, or the iteration ends
ForNode_body(rs, nds) ==
    LET k == Len(rs.stack)
        a == rs.stack[k]
        nd == ForNodeDef(a.id)
        env == DefaultEnv
    IN  IF a.j > Len(nd.nodelist_loop)
        THEN [rs |-> [rs EXCEPT !.ctx.dicts = IF a.pop_context THEN Pop(@) ELSE @,
                                !.stack[k].pop_context = FALSE,
                                !.stack[k].i = @ + 1,
                                !.stack[k].pc = "iter"],
              nodes |-> nds]
        ELSE LET b == nd.nodelist_loop[a.j]
             IN  CASE b.k = "text" -> [rs |-> Deliver(rs, b.s), nodes |-> nds]
                   [] b.k = "var" ->
                        LET v == IF a.path = "ultra" THEN a.values[a.i + 1]
                                 ELSE LET r == Context_get(rs.ctx.dicts, b.name)
                                      IN  IF r.found THEN r.v ELSE Str(<<>>)
                        IN  [rs |-> Deliver(rs, _render_var_with_value("none", v, rs.ctx, env)),
                             nodes |-> nds]
                   [] b.k = "probe" ->
                        LET r == Context_get(rs.ctx.dicts, "forloop")
                            v == IF r.found THEN ResolveFrom(rs.loops, r.v, b.path)
                                 ELSE Str(<<>>)
                        IN  [rs |-> Deliver(rs, render_value_in_context(v, rs.ctx, env)),
                             nodes |-> nds]
                   [] b.k = "cycle" ->
                        LET r == CycleNode_render(rs.ctx, b.id, env)
                        IN  [rs |-> Deliver([rs EXCEPT !.ctx = r.ctx], r.out),
                             nodes |-> nds]
                   [] b.k = "ifchanged" ->
                        LET r == IfChangedNode_render(rs, nds, b)
                        IN  [rs |-> Deliver(r.rs, r.out), nodes |-> r.nodes]
                   [] OTHER -> [rs |-> ForNode_enter(rs, b.id), nodes |-> nds]

\* an exception passes through the innermost ForNode.render call: its
\* finally clause runs (lines 823-824) and the exception goes on
ForNode_unwind(rs) ==
    LET k == Len(rs.stack)
        a == rs.stack[k]
        after == Pop(rs.ctx.dicts)
    IN  Propagate([rs EXCEPT !.ctx.dicts = after,
                             !.stack = Pop(@),
                             !.exits = Append(@, ExitRec(a.id,
                                           IF a.pc = "iter" THEN rs.exc ELSE "body",
                                           a.src, a.entry, after, <<>>, 1, a.i))],
                  rs.exc)

\* the next step of a render call
Step(rs, nds) ==
    IF rs.status = "start"
    THEN [rs |-> ForNode_enter([rs EXCEPT !.status = "run"], rs.input.root), nodes |-> nds]
    ELSE IF rs.exc # "none" THEN [rs |-> ForNode_unwind(rs), nodes |-> nds]
    ELSE IF rs.stack[Len(rs.stack)].pc = "iter"
    THEN [rs |-> ForNode_iterate(rs), nodes |-> nds]
    ELSE ForNode_body(rs, nds)

-----------------------------------------------------------------------------
(* One render call (SpecLoop) and two render calls of the same compiled    *)
(* tree side by side, each with a Context of its own (SpecShared).         *)

Renders == {"r1", "r2"}

Merge(f, g) == [x \in DOMAIN f \cup DOMAIN g |-> IF x \in DOMAIN f THEN f[x] ELSE g[x]]

\* [1, 2, ..., n]
IntList(n) == ListV([q \in 1..n |-> IntV(q)])

\* what a loop source resolves to: a list of 0..MaxLoop elements, None, the
\* int 5, or nothing at all (the variable is missing)
Bindings(name) ==
    {MapOf(name, IntList(n)) : n \in 0..MaxLoop}
        \cup {MapOf(name, NoneV), MapOf(name, IntV(5)), EmptyMap}

\* the elements of `pairs`: a scalar, tuples of length 1 and 3, and pairs
\* whose second item is a list, the int 5 or None
PairElems ==
    {IntV(7), ListV(<<IntV(1)>>), ListV(<<IntV(1), IntV(2), IntV(3)>>),
     ListV(<<IntV(1), IntList(1)>>), ListV(<<IntV(2), IntV(5)>>),
     ListV(<<IntV(3), NoneV>>)}

LoopInputs ==
    {[root |-> "outer", data |-> Merge(o, i), debug |-> d] :
        o \in Bindings("outers"), i \in Bindings("inners"), d \in BOOLEAN}
    \cup {[root |-> "pair", data |-> MapOf("pairs", ListV(q)), debug |-> FALSE] :
            q \in SeqsUpTo(PairElems, MaxLoop)}
    \cup {[root |-> "flat", data |-> b, debug |-> d] :
            b \in Bindings("items"), d \in BOOLEAN}
    \cup {[root |-> "state", data |-> MapOf("items", ListV(q)), debug |-> FALSE] :
            q \in SeqsUpTo({IntV(1), IntV(2)}, MaxLoop)}

\* the inputs of the renders that run side by side
SharedInputs ==
    {[root |-> "state", data |-> MapOf("items", ListV(q)), debug |-> FALSE] :
            q \in {x \in SeqsUpTo({IntV(1), IntV(2)}, MaxLoop) : Len(x) = MaxLoop}}
    \cup {[root |-> "outer", data |-> Merge(MapOf("outers", IntList(MaxLoop)),
                                            MapOf("inners", IntList(1))),
           debug |-> FALSE],
          [root |-> "pair", data |-> MapOf("pairs", ListV(<<ListV(<<IntV(2), IntV(5)>>)>>)),
           debug |-> FALSE]}

\* the render call at its start: make_context(data), nothing rendered yet
NewRender(input) ==
    [input |-> input, ctx |-> make_context(input.data), loops |-> <<>>,
     stack |-> <<>>, exc |-> "none", status |-> "start", out |-> <<>>,
     exits |-> <<>>, mixed |-> FALSE, changes |-> <<>>]

InitLoop ==
    /\ call = Idle
    /\ context = InitContext
    /\ cycleLog = EmptyLog
    /\ nodes = EmptyMap
    /\ renderer = <<>>
    /\ _number_format_cache = <<>>
    /\ renders \in [{"r1"} -> {NewRender(x) : x \in LoopInputs}]

InitShared ==
    /\ call = Idle
    /\ context = InitContext
    /\ cycleLog = EmptyLog
    /\ nodes = EmptyMap
    /\ renderer = <<>>
    /\ _number_format_cache = <<>>
    /\ renders \in [Renders -> {NewRender(x) : x \in SharedInputs}]

\* render call r takes its next step; mixed records that another call was
\* under way at that moment
Advance(r) ==
    LET m == Step(renders[r], nodes)
        busy == \E u \in DOMAIN renders : u # r /\ renders[u].status = "run"
    IN  /\ renders' = [renders EXCEPT ![r] = [m.rs EXCEPT !.mixed = @ \/ busy]]
        /\ nodes' = m.nodes
        /\ UNCHANGED <<call, context, cycleLog, renderer, _number_format_cache>>

\* the root ForNode.render is called
RenderStart(r) ==
    /\ r \in DOMAIN renders
    /\ renders[r].status = "start"
    /\ Advance(r)

\* the head of the innermost loop runs
LoopIterate(r) ==
    /\ r \in DOMAIN renders
    /\ renders[r].status = "run" /\ renders[r].exc = "none"
    /\ renders[r].stack[Len(renders[r].stack)].pc = "iter"
    /\ Advance(r)

\* a body node of the innermost loop renders, or its iteration ends
LoopBodyNode(r) ==
    /\ r \in DOMAIN renders
    /\ renders[r].status = "run" /\ renders[r].exc = "none"
    /\ renders[r].stack[Len(renders[r].stack)].pc = "body"
    /\ Advance(r)

\* an exception leaves the innermost ForNode.render
LoopUnwind(r) ==
    /\ r \in DOMAIN renders
    /\ renders[r].status = "run" /\ renders[r].exc # "none"
    /\ Advance(r)

NextLoop ==
    \E r \in Renders :
        \/ RenderStart(r)
        \/ LoopIterate(r)
        \/ LoopBodyNode(r)
        \/ LoopUnwind(r)

SpecLoop == InitLoop /\ [][NextLoop]_vars

SpecShared == InitShared /\ [][NextLoop]_vars

RECURSIVE RunAlone(_, _)
\* the render call run to its end with no other call beside it
RunAlone(rs, nds) ==
    IF rs.status \in {"done", "raised"} THEN rs
    ELSE LET m == Step(rs, nds) IN RunAlone(m.rs, m.nodes)

Finished(r) == renders[r].status \in {"done", "raised"}

\* C12: render calls of one compiled node tree, each with a Context of its
\* own and interleaved in any order, each return what they return when run
\* alone; CycleNode, IfChangedNode and ForNode keep the state of a render in
\* structures its Context owns, and no field of a node is written.
C12_SharedTreeRendersAsAlone ==
    /\ nodes = EmptyMap
    /\ \A r \in DOMAIN renders :
          Finished(r) =>
              LET alone == RunAlone(NewRender(renders[r].input), EmptyMap)
              IN  /\ renders[r].out = alone.out
                  /\ renders[r].status = alone.status
                  /\ renders[r].ctx.render_context = alone.ctx.render_context

\* two renders of the cycle / ifchanged loop over different items ran
\* interleaved and returned different texts
C12_Witness ==
    /\ DOMAIN renders = Renders
    /\ \A r \in Renders : renders[r].status = "done" /\ renders[r].mixed
                          /\ renders[r].input.root = "state"
    /\ renders["r1"].input.data["items"].items = <<IntV(1), IntV(1)>>
    /\ renders["r2"].input.data["items"].items = <<IntV(1), IntV(2)>>
    /\ renders["r1"].out # renders["r2"].out

Unpacks(id) == Len(ForNodeDef(id).loopvars) > 1

\* C14: every ForNode.render call leaves the scope stack as it found it, the
\* same frames in the same order, on every exit path: normal return, empty
\* source, unpack mismatch, an exception of a body node; with one loop
\* variable and with several.
C14_ScopeStackRestored ==
    \A r \in DOMAIN renders :
        \A q \in 1..Len(renders[r].exits) :
            renders[r].exits[q].after = renders[r].exits[q].entry

\* C15: in iteration i (from 0) of a loop over n >= 1 elements, reversed or
\* not, the forloop frame reports counter0 = i, counter = i + 1,
\* revcounter = n - i, revcounter0 = n - i - 1, first = (i = 0),
\* last = (i = n - 1) and length = n, in the ultra-fast, the optimized and
\* the general loop.
C15_LoopCounters ==
    \A r \in DOMAIN renders :
        \A q \in 1..Len(renders[r].stack) :
            LET a == renders[r].stack[q]
                fr == renders[r].loops[a.loop]
                n == Len(a.values)
                i == a.i
            IN  a.pc = "body" =>
                  /\ n >= 1 /\ i \in 0..(n - 1)
                  /\ a.path \in {"ultra", "optimized", "general"}
                  /\ CForloopContext_getitem(fr, "counter0") = IntV(i)
                  /\ CForloopContext_getitem(fr, "counter") = IntV(i + 1)
                  /\ CForloopContext_getitem(fr, "revcounter") = IntV(n - i)
                  /\ CForloopContext_getitem(fr, "revcounter0") = IntV(n - i - 1)
                  /\ CForloopContext_getitem(fr, "first") = BoolV(i = 0)
                  /\ CForloopContext_getitem(fr, "last") = BoolV(i = n - 1)
                  /\ CForloopContext_getitem(fr, "length") = IntV(n)

\* the reversed ultra-fast loop is in its last iteration, on the first
\* element of the source
C15_Witness ==
    /\ renders["r1"].input.root = "flat"
    /\ Len(renders["r1"].stack) = 1
    /\ LET a == renders["r1"].stack[1]
       IN  /\ a.pc = "body" /\ a.path = "ultra" /\ a.i = 1 /\ Len(a.values) = 2
           /\ a.values[a.i + 1] = IntV(1)
           /\ renders["r1"].loops[a.loop]._i = 1

\* what {{ forloop.<path> }} resolves to in render call r
ForloopAt(rs, path) ==
    LET fl == Context_get(rs.ctx.dicts, "forloop")
    IN  IF fl.found THEN ResolveFrom(rs.loops, fl.v, path) ELSE Str(<<>>)

\* the frames of the loops under way are chained: forloop is the frame of
\* the innermost loop, parentloop that of the loop around it with the
\* counters it has now, and the outermost parentloop is empty
Chained(rs) ==
    \A q \in 1..Len(rs.stack) :
        LET a == rs.stack[q]
        IN  /\ rs.loops[a.loop]._parentloop = IF q = 1 THEN 0 ELSE rs.stack[q - 1].loop
            /\ q = Len(rs.stack) =>
                  /\ ForloopAt(rs, <<>>) = LoopRef(a.loop)
                  /\ ForloopAt(rs, <<"parentloop">>) =
                        LoopRef(IF q = 1 THEN 0 ELSE rs.stack[q - 1].loop)
                  /\ q > 1 => /\ ForloopAt(rs, <<"parentloop", "counter0">>) =
                                    IntV(rs.stack[q - 1].i)
                              /\ ForloopAt(rs, <<"parentloop", "length">>) =
                                    IntV(Len(rs.stack[q - 1].values))

\* the step in which an inner ForNode.render returns leaves the frame of the
\* loop around it as it was
OuterFrameKept(r) ==
    LET old == renders[r]
        new == renders'[r]
    IN  (Len(new.stack) = Len(old.stack) - 1 /\ new.stack # <<>> /\ new.exc = "none") =>
            LET a == new.stack[Len(new.stack)]
            IN  /\ new.loops[a.loop] = old.loops[a.loop]
                /\ a.i = old.stack[Len(new.stack)].i
                /\ Context_get(new.ctx.dicts, "forloop").v = LoopRef(a.loop)

\* C16: in nested loops forloop.parentloop is the frame of the enclosing
\* loop with its current counters, the outermost parentloop is empty, and
\* after the inner ForNode.render has returned forloop denotes the outer
\* frame again, unchanged.
C16_ParentloopChain ==
    [][\A r \in DOMAIN renders :
          /\ renders[r].exc = "none" => Chained(renders[r])
          /\ renders'[r].exc = "none" => Chained(renders'[r])
          /\ OuterFrameKept(r)]_vars

\* the inner loop has returned in the second iteration of the outer loop and
\* {{ forloop.revcounter }} is about to render against the outer frame
C16_Witness ==
    /\ renders["r1"].input.root = "outer"
    /\ Len(renders["r1"].stack) = 1
    /\ renders["r1"].stack[1].i = 1 /\ renders["r1"].stack[1].j = 2
    /\ renders["r1"].stack[1].pc = "body"
    /\ Len(renders["r1"].exits) = 2
    /\ renders["r1"].exits[2].how = "return" /\ renders["r1"].exits[2].id = "inner"
    /\ ForloopAt(renders["r1"], <<"counter">>) = IntV(2)

\* the index of the first element whose length is not k, 0 if there is none
FirstMismatch(items, k) ==
    IF \E m \in 1..Len(items) : len_item(items[m]) # k
    THEN CHOOSE m \in 1..Len(items) :
            /\ len_item(items[m]) # k
            /\ \A m2 \in 1..(m - 1) : len_item(items[m2]) = k
    ELSE 0

\* C17: a loop with k > 1 loop variables raises, for an element whose length
\* is not k (an element without length has length 1), an error that reaches
\* the caller of the render; it binds no cut or padded part of the element
\* and returns nothing of the iterations before.
C17_UnpackMismatchRaises ==
    \A r \in DOMAIN renders :
        LET rs == renders[r]
        IN  /\ \A q \in 1..Len(rs.exits) :
                  LET e == rs.exits[q]
                      k == Len(ForNodeDef(e.id).loopvars)
                      m == FirstMismatch(e.src.items, k)
                  IN  (Unpacks(e.id) /\ e.src.t = "list" /\ m > 0) =>
                          /\ e.out = <<>>
                          /\ \/ e.how = "ValueError" /\ e.i = m - 1
                             \/ e.how = "body" /\ e.i < m - 1
                          /\ rs.status # "done"
            /\ \A q \in 1..Len(rs.stack) :
                  LET a == rs.stack[q]
                      lv == ForNodeDef(a.id).loopvars
                  IN  (Unpacks(a.id) /\ a.pc = "body") =>
                          LET item == a.values[a.i + 1]
                              bound == rs.ctx.dicts[Len(a.entry) + 2]
                          IN  /\ item.t = "list" /\ Len(item.items) = Len(lv)
                              /\ DOMAIN bound = {lv[x] : x \in 1..Len(lv)}
                              /\ \A x \in 1..Len(lv) : bound[lv[x]] = item.items[x]
            /\ rs.status = "raised" => rs.out = <<>>

\* the second element of pairs is a tuple of three: the first iteration had
\* rendered, the render raised ValueError and returned nothing
C17_Witness ==
    /\ renders["r1"].input.root = "pair"
    /\ renders["r1"].input.data["pairs"].items =
           <<ListV(<<IntV(3), NoneV>>), ListV(<<IntV(1), IntV(2), IntV(3)>>)>>
    /\ renders["r1"].status = "raised" /\ renders["r1"].exc = "ValueError"
    /\ renders["r1"].out = <<>>
    /\ renders["r1"].exits[Len(renders["r1"].exits)].how = "ValueError"
    /\ renders["r1"].exits[Len(renders["r1"].exits)].i = 1

\* the source resolved to a sequence of length 0: an empty list, None or a
\* missing variable
EmptySource(src) == src.t = "none" \/ (src.t = "list" /\ src.items = <<>>)

\* C18: when the source resolves to a sequence of length 0 (empty list,
\* missing variable, None) ForNode.render returns the rendering of the empty
\* body, renders no node of the loop body and binds neither the loop
\* variable nor a forloop frame.
C18_EmptySourceRendersEmptyBody ==
    \A r \in DOMAIN renders :
        \A q \in 1..Len(renders[r].exits) :
            LET e == renders[r].exits[q]
            IN  EmptySource(e.src) =>
                    /\ e.how = "empty"
                    /\ e.out = ForNodeDef(e.id).nodelist_empty
                    /\ e.made = 0
                    /\ e.after = e.entry

\* the variable of the outer loop is missing: the render returned the empty
\* body and created no forloop frame
C18_Witness ==
    /\ renders["r1"].input.root = "outer"
    /\ "outers" \notin DOMAIN renders["r1"].input.data
    /\ renders["r1"].status = "done"
    /\ renders["r1"].out = <<"E">>
    /\ renders["r1"].loops = <<>>
    /\ Len(renders["r1"].exits) = 1 /\ renders["r1"].exits[1].how = "empty"

\* C19: a source that is not iterable (an int) counts as the empty sequence:
\* ForNode.render returns the rendering of the empty body and raises
\* nothing.
C19_NonIterableIsEmpty ==
    \A r \in DOMAIN renders :
        /\ \A q \in 1..Len(renders[r].exits) :
              LET e == renders[r].exits[q]
              IN  e.src.t = "int" =>
                      /\ e.how = "empty"
                      /\ e.out = ForNodeDef(e.id).nodelist_empty
        /\ (renders[r].input.root = "flat" /\ "items" \in DOMAIN renders[r].input.data
              /\ renders[r].input.data["items"].t = "int") => renders[r].exc = "none"

-----------------------------------------------------------------------------
(* Specification SpecChanged: {% ifchanged %} nodes in a loop and in a     *)
(* loop that is entered once per element of an outer loop.                 *)

\* the elements of items: two numbers and the empty string
ChangedElems == {IntV(1), IntV(2), Str(<<>>)}

ChangedInputs ==
    {[root |-> "chg", data |-> MapOf("items", ListV(q)), debug |-> FALSE] :
        q \in SeqsUpTo(ChangedElems, MaxLoop)}
    \cup {[root |-> "grp", data |-> Merge(MapOf("outers", IntList(n)), MapOf("items", v)),
           debug |-> FALSE] :
            n \in 1..MaxLoop,
            v \in {ListV(q) : q \in SeqsUpTo(ChangedElems, MaxLoop)} \cup {IntV(5)}}

InitChanged ==
    /\ call = Idle
    /\ context = InitContext
    /\ cycleLog = EmptyLog
    /\ nodes = EmptyMap
    /\ renderer = <<>>
    /\ _number_format_cache = <<>>
    /\ renders \in [{"r1"} -> {NewRender(x) : x \in ChangedInputs}]

SpecChanged == InitChanged /\ [][NextLoop]_vars

-----------------------------------------------------------------------------
(* defaulttags.py: AutoEscapeControlNode, FilterNode, WithNode and         *)
(* PartialNode.  A node is [k, s, name, setting, extra_context, nodelist]: *)
(* s is the text of a text node, name the variable of {{ name }} or the    *)
(* partial_name, setting the argument of {% autoescape %}, extra_context   *)
(* the name=expression pairs of {% with %}, nodelist the body.  A render   *)
(* returns [ctx, k, out, log]: the Context after it, "ok" or the exception *)
(* raised, the value returned, and one record per block tag that was left. *)

BText(s) ==
    [k |-> "text", s |-> s, name |-> "", setting |-> FALSE,
     extra_context |-> EmptyMap, nodelist |-> <<>>]
BVar(name) == [BText(<<>>) EXCEPT !.k = "var", !.name = name]
BPartial(name) == [BText(<<>>) EXCEPT !.k = "partial", !.name = name]
BAutoescape(setting, nodelist) ==
    [BText(<<>>) EXCEPT !.k = "autoescape", !.setting = setting, !.nodelist = nodelist]
BWith(extra_context, nodelist) ==
    [BText(<<>>) EXCEPT !.k = "with", !.extra_context = extra_context,
                        !.nodelist = nodelist]
BFilter(filter, nodelist) ==
    [BText(<<>>) EXCEPT !.k = "filter", !.name = filter, !.nodelist = nodelist]

\* the expressions of {% with %}: a quoted literal or a variable
Literal(s) == [literal |-> TRUE, s |-> s, name |-> ""]
Lookup(name) == [literal |-> FALSE, s |-> <<>>, name |-> name]

\* FilterExpression.resolve without filters: a miss yields string_if_invalid
FilterExpression_resolve(fe, ctx) ==
    IF fe.literal THEN Str(fe.s)
    ELSE LET r == Context_get(ctx.dicts, fe.name)
         IN  IF r.found THEN r.v ELSE Str(<<>>)

\* context.push(**values) and the pop its context manager does on exit
Context_push(ctx, values) == [ctx EXCEPT !.dicts = Append(@, values)]
Context_pop(ctx) == [ctx EXCEPT !.dicts = SubSeq(@, 1, Len(@) - 1)]

\* the partials {% partialdef %} declared: "p" only
PartialMapping == MapOf("p", <<BText(<<"P">>)>>)

BlockResult(ctx, k, out, log) == [ctx |-> ctx, k |-> k, out |-> out, log |-> log]

BlockExit(nd, entry, inner, body, r) ==
    [node |-> nd, entry |-> entry, inner |-> inner, body |-> body,
     exit |-> r.ctx, how |-> r.k, out |-> r.out]

RECURSIVE NodeList_render(_, _)

\* AutoEscapeControlNode.render without the restoring assignment
AutoEscapeControlNode_render_keep(nd, ctx) ==
    LET inner == [ctx EXCEPT !.autoescape = nd.setting]
        b == NodeList_render(nd.nodelist, inner)
        r == IF b.k # "ok" THEN b
             ELSE [b EXCEPT !.out = IF nd.setting THEN mark_safe(b.out) ELSE b.out]
    IN  [r EXCEPT !.log = Append(@, BlockExit(nd, ctx, inner, b.out, r))]
\* AutoEscapeControlNode.render: the flag is set, the body rendered, the flag
\* put back; an exception of the body leaves the method at the body's line
AutoEscapeControlNode_render(nd, ctx) ==
    LET old_setting == ctx.autoescape
        inner == [ctx EXCEPT !.autoescape = nd.setting]
        b == NodeList_render(nd.nodelist, inner)
        r == IF b.k # "ok" THEN b
             ELSE [b EXCEPT !.ctx = [b.ctx EXCEPT !.autoescape = old_setting],
                            !.out = IF nd.setting THEN mark_safe(b.out) ELSE b.out]
    IN  [r EXCEPT !.log = Append(@, BlockExit(nd, ctx, inner, b.out, r))]

\* FilterNode.render: the body is rendered, then bound to var in a new frame
\* while the filter chain of var|filter is resolved
FilterNode_render(nd, ctx) ==
    LET b == NodeList_render(nd.nodelist, ctx)
        inner == Context_push(b.ctx, MapOf("var", b.out))
        r == IF b.k # "ok" THEN b
             ELSE [b EXCEPT !.ctx = Context_pop(inner),
                            !.out = ApplyFilter(nd.name,
                                        FilterExpression_resolve(Lookup("var"), inner))]
    IN  [r EXCEPT !.log = Append(@, BlockExit(nd, ctx, inner, b.out, r))]

\* WithNode.render with the values resolved inside the new frame
WithNode_render_late(nd, ctx) ==
    LET pushed == Context_push(ctx, [key \in DOMAIN nd.extra_context |-> Str(<<>>)])
        values == [key \in DOMAIN nd.extra_context |->
                      FilterExpression_resolve(nd.extra_context[key], pushed)]
        inner == Context_push(ctx, values)
        b == NodeList_render(nd.nodelist, inner)
        r == [b EXCEPT !.ctx = Context_pop(b.ctx)]
    IN  [r EXCEPT !.log = Append(@, BlockExit(nd, ctx, inner, b.out, r))]
\* WithNode.render: the values are resolved, then pushed as one frame that
\* the context manager pops when the body returned or raised
WithNode_render(nd, ctx) ==
    LET values == [key \in DOMAIN nd.extra_context |->
                      FilterExpression_resolve(nd.extra_context[key], ctx)]
        inner == Context_push(ctx, values)
        b == NodeList_render(nd.nodelist, inner)
        r == [b EXCEPT !.ctx = Context_pop(b.ctx)]
    IN  [r EXCEPT !.log = Append(@, BlockExit(nd, ctx, inner, b.out, r))]

\* PartialNode.render: the KeyError of an undeclared name becomes a
\* TemplateSyntaxError
PartialNode_render(partial_mapping, nd, ctx) ==
    IF nd.name \in DOMAIN partial_mapping
    THEN NodeList_render(partial_mapping[nd.name], ctx)
    ELSE BlockResult(ctx, "TemplateSyntaxError", NoneV, <<>>)

\* node.render_annotated(context): render by the class of the node
Node_render_annotated(nd, ctx) ==
    CASE nd.k = "text" -> BlockResult(ctx, "ok", Str(nd.s), <<>>)
      [] nd.k = "var" ->
            BlockResult(ctx, "ok",
                Str(render_value_in_context(
                        FilterExpression_resolve(Lookup(nd.name), ctx), ctx, DefaultEnv)),
                <<>>)
      [] nd.k = "partial" -> PartialNode_render(PartialMapping, nd, ctx)
      [] nd.k = "autoescape" -> AutoEscapeControlNode_render(nd, ctx)
      [] nd.k = "with" -> WithNode_render(nd, ctx)
      [] OTHER -> FilterNode_render(nd, ctx)

\* NodeList.render: the outputs of the nodes in order, joined and tagged
\* safe; the first exception ends it
NodeList_render(nodelist, ctx) ==
    IF nodelist = <<>> THEN BlockResult(ctx, "ok", SafeStr(<<>>), <<>>)
    ELSE LET h == Node_render_annotated(Head(nodelist), ctx)
         IN  IF h.k # "ok" THEN h
             ELSE LET t == NodeList_render(Tail(nodelist), h.ctx)
                  IN  [t EXCEPT !.out = IF t.k = "ok" THEN SafeStr(PyStr(h.out) \o t.out.s)
                                        ELSE t.out,
                                !.log = h.log \o @]

(* Specification SpecBlock: a template of nested block tags is rendered    *)
(* with a Context whose autoescape flag and variables vary.                *)

\* the bodies without a block tag
LeafBodies ==
    {<<BText(<<"<">>)>>, <<BVar("x")>>, <<BVar("var")>>, <<BPartial("q")>>,
     <<BVar("x"), BPartial("q")>>, <<BPartial("p")>>}

WithContexts ==
    {MapOf("x", Literal(<<"i">>)), MapOf("x", Lookup("x")), MapOf("x", Lookup("var"))}

\* the block tags around a body
Blocks(body) ==
    {BAutoescape(s, body) : s \in BOOLEAN}
        \cup {BWith(e, body) : e \in WithContexts}
        \cup {BFilter("upper", body)}

\* what follows a block tag in its nodelist
Tails == {<<>>, <<BVar("x"), BVar("var")>>}

RECURSIVE BlockBodies(_)
\* the nodelists with at most n block tags in one another
BlockBodies(n) ==
    IF n = 0 THEN LeafBodies
    ELSE LET inner == BlockBodies(n - 1)
         IN  inner \cup {<<b>> \o t : b \in UNION {Blocks(body) : body \in inner}, t \in Tails}

\* the variables of the caller
BlockData ==
    {EmptyMap, MapOf("x", Str(<<"<", "o">>)), MapOf("var", Str(<<"a", "&">>)),
     Merge(MapOf("x", Str(<<"<", "o">>)), MapOf("var", Str(<<"a", "&">>)))}

InitBlock ==
    /\ call \in {Pending("Template.render", nl) : nl \in BlockBodies(MaxNest)}
    /\ context \in {[InitContext EXCEPT !.autoescape = a, !.dicts = Append(@, d)] :
                        a \in BOOLEAN, d \in BlockData}
    /\ cycleLog = EmptyLog
    /\ NoRenders

\* the render of the template: the Context is the caller's and keeps what
\* the nodes did to it
TemplateRenderBlocks ==
    /\ call.op = "Template.render" /\ ~call.done
    /\ LET r == NodeList_render(call.arg, context)
       IN  /\ context' = r.ctx
           /\ call' = [call EXCEPT !.done = TRUE,
                                   !.res = [k |-> r.k, out |-> r.out, log |-> r.log]]
    /\ UNCHANGED <<cycleLog, renders, nodes, renderer, _number_format_cache>>

NextBlock == TemplateRenderBlocks

SpecBlock == InitBlock /\ [][NextBlock]_vars

-----------------------------------------------------------------------------
(* defaulttags.py: the compile functions of {% cycle %}, {% resetcycle %}, *)
(* {% partialdef %} and {% partial %}.  A tag is token.split_contents(), a *)
(* sequence of words.  The parser is [pos, has_named, _named_cycle_nodes,  *)
(* _last_cycle_node, partials, nodelist, error, rendered]: has_named is    *)
(* hasattr(parser, "_named_cycle_nodes"), _last_cycle_node is NoNode while *)
(* the attribute is not there.  A compiled node is [k, at, name, ref]: at  *)
(* is the place of the tag that made the object, ref the at of the         *)
(* CycleNode a ResetCycleNode holds (0 for none).                          *)

NoNode == [k |-> "none", at |-> 0, name |-> "", ref |-> 0]

CompiledNode(k, at, name, ref) == [k |-> k, at |-> at, name |-> name, ref |-> ref]

NewParser ==
    [pos |-> 1, has_named |-> FALSE, _named_cycle_nodes |-> EmptyMap,
     _last_cycle_node |-> NoNode, partials |-> EmptyMap, nodelist |-> <<>>,
     error |-> "none", rendered |-> <<>>]

\* raise TemplateSyntaxError(...) out of a compile function
TagError(parser) == [parser EXCEPT !.error = "TemplateSyntaxError"]

\* the node a compile function returns is appended to the nodelist
TagNode(parser, node) == [parser EXCEPT !.nodelist = Append(@, node)]

\* cycle(parser, token)
cycle(parser, args) ==
    IF Len(args) < 2 THEN TagError(parser)
    ELSE IF Len(args) = 2
    THEN IF ~parser.has_named THEN TagError(parser)
         ELSE IF args[2] \notin DOMAIN parser._named_cycle_nodes THEN TagError(parser)
         ELSE TagNode(parser, parser._named_cycle_nodes[args[2]])
    ELSE LET n == Len(args)
             as_form == n > 4 /\ args[n - 1] = "as"
             node == CompiledNode("cycle", parser.pos, IF as_form THEN args[n] ELSE "", 0)
             named == IF as_form
                      THEN [parser EXCEPT !.has_named = TRUE,
                                          !._named_cycle_nodes = MapSet(@, args[n], node)]
                      ELSE parser
         IN  TagNode([named EXCEPT !._last_cycle_node = node], node)

\* resetcycle without the errors: an unknown name or a missing cycle yields
\* a ResetCycleNode that holds no node
resetcycle_lenient(parser, args) ==
    IF Len(args) = 2 /\ parser.has_named /\ args[2] \in DOMAIN parser._named_cycle_nodes
    THEN TagNode(parser, CompiledNode("resetcycle", parser.pos, "",
                                      parser._named_cycle_nodes[args[2]].at))
    ELSE TagNode(parser, CompiledNode("resetcycle", parser.pos, "",
                                      parser._last_cycle_node.at))
\* resetcycle(parser, token)
resetcycle(parser, args) ==
    IF Len(args) > 2 THEN TagError(parser)
    ELSE IF Len(args) = 2
    THEN IF parser.has_named /\ args[2] \in DOMAIN parser._named_cycle_nodes
         THEN TagNode(parser, CompiledNode("resetcycle", parser.pos, "",
                                           parser._named_cycle_nodes[args[2]].at))
         ELSE TagError(parser)
    ELSE IF parser._last_cycle_node # NoNode
    THEN TagNode(parser, CompiledNode("resetcycle", parser.pos, "",
                                      parser._last_cycle_node.at))
    ELSE TagError(parser)

\* partialdef_func(parser, token) of {% partialdef name %}P{% endpartialdef %}
partialdef_func(parser, bits) ==
    IF Len(bits) # 2 THEN TagError(parser)
    ELSE IF bits[2] \in DOMAIN parser.partials THEN TagError(parser)
    ELSE TagNode([parser EXCEPT !.partials = MapSet(@, bits[2], <<BText(<<"P">>)>>)],
                 CompiledNode("partialdef", parser.pos, bits[2], 0))

\* partial_func(parser, token): the lookup of the name is left to the render
partial_func(parser, bits) ==
    IF Len(bits) = 2 THEN TagNode(parser, CompiledNode("partial", parser.pos, bits[2], 0))
    ELSE TagError(parser)

\* the compile function registered for the first word of the tag
compile_tag(parser, args) ==
    CASE args[1] = "cycle" -> cycle(parser, args)
      [] args[1] = "resetcycle" -> resetcycle(parser, args)
      [] args[1] = "partialdef" -> partialdef_func(parser, args)
      [] OTHER -> partial_func(parser, args)

RECURSIVE render_compiled(_, _, _)
\* the render of the compiled nodes from node q on: "ok" or the exception per
\* node, up to the first that raises
render_compiled(parser, q, ctx) ==
    IF q > Len(parser.nodelist) THEN <<>>
    ELSE LET nd == parser.nodelist[q]
             r == IF nd.k = "partial"
                  THEN PartialNode_render(parser.partials, BPartial(nd.name), ctx)
                  ELSE BlockResult(ctx, "ok", Str(<<>>), <<>>)
         IN  IF r.k # "ok" THEN <<[k |-> r.k, out |-> <<>>]>>
             ELSE <<[k |-> "ok", out |-> PyStr(r.out)]>> \o render_compiled(parser, q + 1, r.ctx)

(* Specification SpecCompile: templates of up to MaxTags tags are compiled *)
(* tag by tag and, when the compiler raised nothing, rendered once.        *)

Tags ==
    {<<"cycle", "'a'", "'b'">>, <<"cycle", "'x'", "'y'", "as", "cls">>,
     <<"cycle", "cls">>, <<"cycle", "zz">>,
     <<"resetcycle">>, <<"resetcycle", "cls">>, <<"resetcycle", "zz">>,
     <<"partialdef", "p">>, <<"partial", "p">>}

InitCompile ==
    /\ call \in {[Pending("compile", t) EXCEPT !.res = NewParser] : t \in SeqsUpTo(Tags, MaxTags)}
    /\ context = InitContext
    /\ cycleLog = EmptyLog
    /\ NoRenders

\* the parser hands the next tag to its compile function
CompileTag ==
    /\ call.op = "compile" /\ ~call.done
    /\ call.res.pos <= Len(call.arg)
    /\ LET p == compile_tag(call.res, call.arg[call.res.pos])
       IN  call' = [call EXCEPT !.res = [p EXCEPT !.pos = @ + 1],
                                !.done = p.error # "none"]
    /\ UNCHANGED <<context, cycleLog, renders, nodes, renderer, _number_format_cache>>

\* the compiled template is rendered
RenderCompiled ==
    /\ call.op = "compile" /\ ~call.done
    /\ call.res.pos > Len(call.arg)
    /\ call' = [call EXCEPT !.res.rendered = render_compiled(call.res, 1, context),
                            !.done = TRUE]
    /\ UNCHANGED <<context, cycleLog, renders, nodes, renderer, _number_format_cache>>

NextCompile == CompileTag \/ RenderCompiled

SpecCompile == InitCompile /\ [][NextCompile]_vars

-----------------------------------------------------------------------------
(* formats.py: the per-language cache.  A language key is "en", "de" or    *)
(* "None"; active is what get_language() returns in the calling thread,    *)
(* "None" while translations are deactivated.  get_format is Django's: a   *)
(* lookup with use_l10n and no language is one for the active language, a  *)
(* lookup without use_l10n or without any language yields the settings.    *)

Languages == {"en", "de"}

NoLang == "None"

\* settings.DECIMAL_SEPARATOR, NUMBER_GROUPING, THOUSAND_SEPARATOR
SettingsFormat(format_type) ==
    CASE format_type = "DECIMAL_SEPARATOR" -> <<".">>
      [] format_type = "NUMBER_GROUPING" -> <<0>>
      [] OTHER -> <<",">>

\* the formats module of the language
LocaleFormat(lang, format_type) ==
    CASE format_type = "DECIMAL_SEPARATOR" -> IF lang = "de" THEN <<",">> ELSE <<".">>
      [] format_type = "NUMBER_GROUPING" -> <<3>>
      [] OTHER -> IF lang = "de" THEN <<".">> ELSE <<",">>

\* django.utils.formats.get_format(format_type, lang, use_l10n=use_l10n)
get_format(format_type, lang, use_l10n, active) ==
    LET l == IF use_l10n /\ lang = NoLang THEN active ELSE lang
    IN  IF use_l10n /\ l \in Languages THEN LocaleFormat(l, format_type)
        ELSE SettingsFormat(format_type)

\* lines 46-49: the three lookups, each with use_l10n=True
_number_formats_result(lang, active) ==
    <<get_format("DECIMAL_SEPARATOR", lang, TRUE, active),
      get_format("NUMBER_GROUPING", lang, TRUE, active),
      get_format("THOUSAND_SEPARATOR", lang, TRUE, active)>>

\* _get_number_formats(lang) on the cache: [formats, cache]
_get_number_formats_cached(cache, lang, active) ==
    IF lang \in DOMAIN cache THEN [formats |-> cache[lang], cache |-> cache]
    ELSE [formats |-> _number_formats_result(lang, active),
          cache |-> MapSet(cache, lang, _number_formats_result(lang, active))]

\* number_format(value, use_l10n=..., force_grouping=...) for an int:
\* [cache, formats, out], formats <<>> when the early exit was taken
number_format_cached(cache, value, use_l10n, force_grouping, active, uts) ==
    IF ~force_grouping /\ (~use_l10n \/ ~uts)
    THEN [cache |-> cache, formats |-> <<>>, out |-> IntToStr(value)]
    ELSE LET f == _get_number_formats_cached(cache, IF use_l10n THEN active ELSE NoLang,
                                             active)
             use_grouping == ((use_l10n /\ uts) \/ force_grouping) /\ f.formats[2][1] # 0
         IN  [cache |-> f.cache, formats |-> f.formats,
              out |-> _format_number(value, f.formats[1], f.formats[2][1], f.formats[3],
                                     use_grouping)]

(* Specification SpecFormat: up to MaxCalls calls of number_format(1234,   *)
(* ...) in a row, each under an active language of its own.                *)

FormatCalls ==
    {[active |-> a, use_l10n |-> u, force_grouping |-> g] :
        a \in Languages \cup {NoLang}, u \in BOOLEAN, g \in BOOLEAN}

InitFormat ==
    /\ \E n \in 1..MaxCalls :
          call \in {Pending("number_format", [uts |-> uts, calls |-> c]) :
                        uts \in BOOLEAN, c \in [1..n -> FormatCalls]}
    /\ context = InitContext
    /\ cycleLog = EmptyLog
    /\ NoRenders

\* the next call of number_format runs to its return
NumberFormat ==
    /\ call.op = "number_format" /\ ~call.done
    /\ LET k == Len(call.res) + 1
           c == call.arg.calls[k]
           r == number_format_cached(_number_format_cache, 1234, c.use_l10n,
                                     c.force_grouping, c.active, call.arg.uts)
       IN  /\ _number_format_cache' = r.cache
           /\ call' = [call EXCEPT !.res = Append(@, [formats |-> r.formats, out |-> r.out]),
                                   !.done = (k = Len(call.arg.calls))]
    /\ UNCHANGED <<context, cycleLog, renders, nodes, renderer>>

NextFormat == NumberFormat

SpecFormat == InitFormat /\ [][NextFormat]_vars

(* Specification SpecLookup: two threads call _get_number_formats(lang)    *)
(* side by side.  A thread is [lang, active, pc, cached, result, ret]; a   *)
(* step is the cache read of line 43, the three lookups of lines 46-49 or  *)
(* the store of line 50 with the return.                                   *)

\* the calls number_format makes: the active language with use_l10n, None
\* without it or while no language is active
LookupCalls ==
    {[lang |-> l, active |-> l] : l \in Languages \cup {NoLang}}
        \cup {[lang |-> NoLang, active |-> a] : a \in Languages}

InitLookup ==
    /\ call = Idle
    /\ context = InitContext
    /\ cycleLog = EmptyLog
    /\ nodes = <<>>
    /\ renderer = <<>>
    /\ _number_format_cache = <<>>
    /\ renders \in [Threads -> {[lang |-> c.lang, active |-> c.active, pc |-> "get",
                                 cached |-> <<>>, result |-> <<>>, ret |-> <<>>] :
                                    c \in LookupCalls}]

\* lines 43-45: cached = _number_format_cache.get(lang), returned when there
CacheGet(t) ==
    /\ renders[t].pc = "get"
    /\ LET cached == IF renders[t].lang \in DOMAIN _number_format_cache
                     THEN _number_format_cache[renders[t].lang] ELSE <<>>
       IN  renders' = [renders EXCEPT ![t].cached = cached,
                                      ![t].ret = cached,
                                      ![t].pc = IF cached # <<>> THEN "done" ELSE "lookup"]
    /\ UNCHANGED <<call, context, cycleLog, nodes, renderer, _number_format_cache>>

\* lines 46-49: the three get_format calls and the tuple
GetFormats(t) ==
    /\ renders[t].pc = "lookup"
    /\ renders' = [renders EXCEPT
                      ![t].result = _number_formats_result(renders[t].lang, renders[t].active),
                      ![t].pc = "store"]
    /\ UNCHANGED <<call, context, cycleLog, nodes, renderer, _number_format_cache>>

\* lines 50-51: the tuple is stored under the key and returned
CacheStore(t) ==
    /\ renders[t].pc = "store"
    /\ _number_format_cache' = MapSet(_number_format_cache, renders[t].lang,
                                      renders[t].result)
    /\ renders' = [renders EXCEPT ![t].ret = renders[t].result, ![t].pc = "done"]
    /\ UNCHANGED <<call, context, cycleLog, nodes, renderer>>

NextLookup == \E t \in Threads : CacheGet(t) \/ GetFormats(t) \/ CacheStore(t)

SpecLookup == InitLookup /\ [][NextLookup]_vars

-----------------------------------------------------------------------------
(* Properties of the chains of escaping functions (SpecText).              *)

\* the value the k-th function of the chain received
ChainIn(k) == IF k = 1 THEN call.arg.v ELSE call.res[k - 1]

\* C21: conditional_escape returns a value tagged safe unchanged, however
\* often it is applied, so the output of escape() and of mark_safe() is not
\* escaped again; escape() escapes its input even when it is tagged safe and
\* tags its result safe.
C21_SafeTextNotEscapedAgain ==
    call.op = "escaping" =>
        \A k \in 1..Len(call.res) :
            LET op == call.arg.ops[k]
                v == ChainIn(k)
                w == call.res[k]
            IN  /\ (op = "conditional_escape" /\ v.t = "safe") => w = v
                /\ (op = "conditional_escape" /\ k > 1
                      /\ call.arg.ops[k - 1] \in {"escape", "mark_safe"}) => w = v
                /\ op = "escape" => (w.t = "safe" /\ w.s = NaiveEscape(v.s))
                /\ op = "mark_safe" => (w.t = "safe" /\ w.s = v.s)

\* a text tagged safe went through escape() and then twice through
\* conditional_escape: escaped once more by escape(), not after that
C21_Witness ==
    /\ call.op = "escaping" /\ call.done
    /\ call.arg.v = SafeStr(<<"<", "&">>)
    /\ call.arg.ops = <<"escape", "conditional_escape", "conditional_escape">>
    /\ call.res[1].s = <<"&", "l", "t", ";", "&", "a", "m", "p", ";">>
    /\ call.res[3] = call.res[1]

\* C28: conditional_escape does not operate on text it has escaped: for
\* every input x, conditional_escape(conditional_escape(x)) equals
\* conditional_escape(x).
C28_ConditionalEscapeIdempotent ==
    call.op = "escaping" =>
        \A k \in 2..Len(call.res) :
            (call.arg.ops[k] = "conditional_escape"
                /\ call.arg.ops[k - 1] = "conditional_escape")
                => call.res[k] = call.res[k - 1]

-----------------------------------------------------------------------------
(* Properties of the block tags (SpecBlock).                               *)

\* the records of the block tags of class k that were left
BlockExits(k) ==
    IF call.op = "Template.render" /\ call.done
    THEN {call.res.log[q] : q \in {q \in 1..Len(call.res.log) : call.res.log[q].node.k = k}}
    ELSE {}

XValue == Str(<<"<", "o">>)
XEscaped == <<"&", "l", "t", ";", "o">>

\* C22: AutoEscapeControlNode.render renders its body with
\* context.autoescape equal to its setting; when it returns the flag has
\* the value it had on entry, also for nested blocks; the output is tagged
\* safe when the setting is on and is the body's output as it was produced
\* when the setting is off.
C22_AutoescapeScoped ==
    \A e \in BlockExits("autoescape") :
        /\ e.inner.autoescape = e.node.setting
        /\ (e.node.nodelist = <<BVar("x")>>
              /\ Context_get(e.entry.dicts, "x") = [found |-> TRUE, v |-> XValue])
              => e.body.s = IF e.node.setting THEN XEscaped ELSE XValue.s
        /\ e.how = "ok" =>
              /\ e.exit.autoescape = e.entry.autoescape
              /\ e.node.setting => (e.out.t = "safe" /\ e.out.s = e.body.s)
              /\ ~e.node.setting => e.out = e.body
              /\ context.autoescape = call.res.log[Len(call.res.log)].entry.autoescape

\* {% autoescape off %}{% autoescape on %}{{ x }}{% endautoescape %}{{ x }}
\* {{ var }}{% endautoescape %} under autoescape on: escaped inside the inner
\* block only, and the flag is on again afterwards
C22_Witness ==
    /\ call.op = "Template.render" /\ call.done
    /\ call.arg = <<BAutoescape(FALSE, <<BAutoescape(TRUE, <<BVar("x")>>),
                                         BVar("x"), BVar("var")>>)>>
    /\ call.res.k = "ok"
    /\ call.res.out.s = XEscaped \o XValue.s
    /\ Len(call.res.log) = 2
    /\ call.res.log[1].entry.autoescape = FALSE
    /\ call.res.log[2].entry.autoescape = TRUE
    /\ context.autoescape = TRUE

\* C29: AutoEscapeControlNode.render restores context.autoescape on every
\* exit path: also when a node of its body raises, the flag has its entry
\* value once the method is left.
C29_AutoescapeRestoredOnRaise ==
    \A e \in BlockExits("autoescape") : e.exit.autoescape = e.entry.autoescape

-----------------------------------------------------------------------------
(* Properties of the {% ifchanged %} nodes (SpecChanged).                  *)

\* the renders of the same node in the same loop run before record q
ChangesBefore(c, q) ==
    {p \in 1..(q - 1) : c[p].id = c[q].id /\ c[p].loop = c[q].loop}

LastOf(S) == CHOOSE p \in S : \A u \in S : u <= p

\* what the else-body of node id renders: its text, or nothing without one
ElseOutput(id) == IfChanged_nodelist_render(InitContext, IfChangedDef(id).nodelist_false).out

\* C24: inside a loop an IfChangedNode renders its true-body exactly once
\* in the first iteration of each run of the enclosing loop and in each
\* later iteration whose compared value differs from the one of the
\* iteration before, and returns the else-body (or nothing) otherwise; the
\* state it compares with is that of the innermost loop run and is empty
\* when that loop is entered again.
C24_IfChangedOncePerChange ==
    \A r \in DOMAIN renders :
        LET c == renders[r].changes
        IN  \A q \in 1..Len(c) :
                c[q].loop # 0 =>
                    LET before == ChangesBefore(c, q)
                        fresh == before = {}
                        differs == fresh \/ c[q].compare_to # c[LastOf(before)].compare_to
                    IN  /\ c[q].loop = c[q].run
                        /\ fresh <=> c[q].i = 0
                        /\ c[q].stored = IF fresh THEN <<>> ELSE c[LastOf(before)].compare_to
                        /\ differs => (c[q].trues = 1 /\ c[q].falses = 0
                                          /\ c[q].out = c[q].once)
                        /\ ~differs => c[q].out = ElseOutput(c[q].id)

-----------------------------------------------------------------------------
(* Properties of the compile functions (SpecCompile).                      *)

IsCycleDecl(t) == t[1] = "cycle" /\ Len(t) > 2

\* the names {% cycle ... as name %} tags declared before tag q
DeclaredBefore(toks, q) ==
    {toks[u][Len(toks[u])] : u \in {u \in 1..(q - 1) :
        IsCycleDecl(toks[u]) /\ Len(toks[u]) > 4 /\ toks[u][Len(toks[u]) - 1] = "as"}}

\* C25: a reference to an undefined name is an error and never empty text:
\* {% cycle name %} and {% resetcycle name %} naming a cycle that no earlier
\* tag declared, and {% resetcycle %} with no cycle before it, raise
\* TemplateSyntaxError when they are compiled, so every ResetCycleNode holds
\* a CycleNode of the template; the render of a PartialNode whose name has no
\* definition raises TemplateSyntaxError.
C25_UndefinedNameIsError ==
    call.op = "compile" =>
        LET p == call.res
            toks == call.arg
            raisedAt(q) == p.error = "TemplateSyntaxError" /\ p.pos = q + 1
        IN  /\ \A q \in 1..(p.pos - 1) :
                  /\ (toks[q][1] \in {"cycle", "resetcycle"} /\ Len(toks[q]) = 2
                        /\ toks[q][2] \notin DeclaredBefore(toks, q)) => raisedAt(q)
                  /\ (toks[q] = <<"resetcycle">>
                        /\ ~\E u \in 1..(q - 1) : IsCycleDecl(toks[u])) => raisedAt(q)
            /\ \A q \in 1..Len(p.nodelist) :
                  p.nodelist[q].k = "resetcycle" =>
                      \E u \in 1..(q - 1) : /\ p.nodelist[u].k = "cycle"
                                            /\ p.nodelist[u].at = p.nodelist[q].ref
            /\ \A q \in 1..Len(p.rendered) :
                  (p.nodelist[q].k = "partial"
                        /\ ~\E u \in 1..Len(toks) : toks[u] = <<"partialdef", p.nodelist[q].name>>)
                      => p.rendered[q].k = "TemplateSyntaxError"

\* {% cycle 'x' 'y' as cls %}{% resetcycle cls %}{% partial p %}: compiled
\* without error, the reset holds the cycle node, the render raises at the
\* partial
C25_Witness ==
    /\ call.op = "compile" /\ call.done
    /\ call.arg = <<<<"cycle", "'x'", "'y'", "as", "cls">>, <<"resetcycle", "cls">>,
                    <<"partial", "p">>>>
    /\ call.res.error = "none"
    /\ call.res.nodelist[2] = CompiledNode("resetcycle", 2, "", 1)
    /\ Len(call.res.rendered) = 3
    /\ call.res.rendered[3].k = "TemplateSyntaxError"

-----------------------------------------------------------------------------
(* Properties of the format cache (SpecFormat, SpecLookup).                *)

\* the three formats of a lookup that passes the call's use_l10n on and
\* reads no cache
FreshFormats(c) ==
    LET lang == IF c.use_l10n THEN c.active ELSE NoLang
    IN  <<get_format("DECIMAL_SEPARATOR", lang, c.use_l10n, c.active),
          get_format("NUMBER_GROUPING", lang, c.use_l10n, c.active),
          get_format("THOUSAND_SEPARATOR", lang, c.use_l10n, c.active)>>

\* C26: in every sequence of number_format calls under varying active
\* languages and use_l10n values, the decimal separator, grouping and
\* thousand separator a call uses are those a fresh, uncached lookup for the
\* call's effective locale returns (the settings when use_l10n is false): no
\* cache entry depends on the language that was active when it was stored.
C26_CachedFormatsAreFresh ==
    call.op = "number_format" =>
        \A k \in 1..Len(call.res) :
            call.res[k].formats # <<>> =>
                call.res[k].formats = FreshFormats(call.arg.calls[k])

\* C27: under every interleaving of _get_number_formats calls each entry of
\* the cache is a complete triple for its key, no caller reads a partial
\* entry, and the calls that populate one key store equal values, so that
\* every caller of a key gets the same triple whichever store came last.
C27_CacheEntriesCompleteAndEqual ==
    /\ \A key \in DOMAIN _number_format_cache :
          /\ Len(_number_format_cache[key]) = 3
          /\ key \in Languages =>
                _number_format_cache[key] = _number_formats_result(key, key)
    /\ \A t \in DOMAIN renders : renders[t].cached # <<>> => Len(renders[t].cached) = 3
    /\ \A t, u \in DOMAIN renders :
          renders[t].lang = renders[u].lang =>
              /\ (renders[t].result # <<>> /\ renders[u].result # <<>>)
                    => renders[t].result = renders[u].result
              /\ (renders[t].pc = "done" /\ renders[u].pc = "done")
                    => renders[t].ret = renders[u].ret

-----------------------------------------------------------------------------
(* What IfParser.parse consumed, under SpecParse.  TreeTokens reads the    *)
(* tokens back off a tree in source order: a prefix operator before its    *)
(* operand, an infix operator between its operands.                        *)

OperatorIdOf(op_code) == CHOOSE id \in OperatorIds : OPERATORS(id).op_code = op_code

RECURSIVE TreeTokens(_)
TreeTokens(tree) ==
    IF tree = NoToken THEN <<>>
    ELSE IF tree.op_code = -1 THEN <<tree.value.name>>
    ELSE IF OPERATORS(OperatorIdOf(tree.op_code)).is_prefix
         THEN <<OperatorIdOf(tree.op_code)>> \o TreeTokens(tree.first)
    ELSE TreeTokens(tree.first) \o <<OperatorIdOf(tree.op_code)>>
             \o TreeTokens(tree.second)

IsInfix(t) == t \in OperatorIds /\ ~OPERATORS(t).is_prefix
IsPrefix(t) == t \in OperatorIds /\ OPERATORS(t).is_prefix
IsOperand(t) == t # "" /\ t \notin OperatorIds

\* an infix operator where an operand is due: first, or right after an operator
InfixInOperandPosition(toks) ==
    \E p \in 1..Len(toks) :
        IsInfix(toks[p]) /\ (p = 1 \/ toks[p - 1] \in OperatorIds)

\* the prefix operator right after a complete operand
PrefixInInfixPosition(toks) ==
    \E p \in 2..Len(toks) : IsPrefix(toks[p]) /\ IsOperand(toks[p - 1])

\* an operand right after a complete operand: tokens left over
OperandAfterOperand(toks) ==
    \E p \in 2..Len(toks) : IsOperand(toks[p]) /\ IsOperand(toks[p - 1])

\* C30: IfParser.parse either returns a tree that consumed every token of
\* the condition (the parser stands on the end token and the tree reads
\* back as exactly the tokens) or raises error_class; it raises for an
\* empty token list, for tokens left after a complete expression, for an
\* infix operator in operand position and for `not` in infix position.
C30_ParseConsumesAllOrRaises ==
    ParseDone =>
        LET toks == mapped_tokens(call.arg)
        IN  /\ call.res.k \in {"ok", "error_class"}
            /\ call.res.k = "ok" =>
                   /\ call.res.p = Len(toks) + 1
                   /\ TreeTokens(call.res.left) = toks
            /\ toks = <<>> => call.res.k = "error_class"
            /\ OperandAfterOperand(toks) => call.res.k = "error_class"
            /\ InfixInOperandPosition(toks) => call.res.k = "error_class"
            /\ PrefixInInfixPosition(toks) => call.res.k = "error_class"

\* "not a is not b" parses: four tokens after mapping, all in the tree
C30_Witness ==
    /\ ParseDone /\ call.arg = <<"not", "a", "is", "not", "b">>
    /\ call.res.k = "ok" /\ call.res.p = 5
    /\ call.res.left = Op(OP_NOT, Op(OP_IS_NOT, VarLit("a", "a"), VarLit("b", "b")), NoToken)

\* "a not b" is refused at the `not`
C30_WitnessNotInfix ==
    /\ ParseDone /\ call.arg = <<"a", "not", "b">>
    /\ call.res.k = "error_class"

====
